---- MODULE Spec2Model ----
(***************************************************************************)
(* Model of the mainu-web menu backend: the /menu routes (process, retry,  *)
(* delete-session), the upload session repository they share, and the      *)
(* LLMMenuService pipeline operations built on _image_batch.               *)
(*                                                                         *)
(* Time is a whole-number clock.  Remote calls (upload, inference,         *)
(* delete) are the suspension points; between two of them a handler runs   *)
(* atomically, as on the asyncio event loop.  asyncio.CancelledError is a  *)
(* BaseException: `except Exception` and `suppress(Exception)` let it      *)
(* through.                                                                *)
(***************************************************************************)
EXTENDS Integers, Sequences, FiniteSets, TLC

VARIABLES
    clock,            \* datetime.now(tz=utc), in ticks
    store,            \* InMemoryUploadRepository._store : token -> record
    nextToken,        \* number of tokens handed out so far + 1
    deleteRequested,  \* file ids LLMMenuService.delete_files was called with
    sessionFiles,     \* token -> file ids the session was created with
    returned,         \* token -> values increment_retry returned, in order
    okRetries,        \* token -> retry requests answered 200
    quick_suggestion_model,  \* settings.quick_suggestion_model is set
    retryStarts,      \* retry requests started so far
    req,              \* request -> the handler's locals and position
    calls,            \* caller -> its call of the session service, and the answer
    svc,              \* the LLMMenuService operation in progress
    obtained,         \* file ids the Files API handed out to the service's uploads
    released,         \* file ids LLMMenuService._delete_files was called with
    shareStore,       \* InMemoryShareRepository._store : token -> entry
    shareIssued,      \* token -> what create_template stored under it
    nextShare,        \* number of share tokens handed out so far + 1
    shareReq,         \* slot -> a share request or ShareService call in progress
    dbShare,          \* share_tokens table of DatabaseShareRepository
    dbStore,          \* upload_sessions table of DatabaseUploadRepository
    last,             \* the repository call last made of both backends, and its answers
    calc              \* a pure function under test: its inputs and its value

\* The share store and the requests that use it
shareState == <<shareStore, shareIssued, nextShare, shareReq>>

\* Everything the /menu session routes and LLMMenuService touch, but the clock
menuState == <<store, nextToken, deleteRequested, sessionFiles, returned,
               okRetries, quick_suggestion_model, retryStarts, req, calls,
               svc, obtained, released>>

\* The relational repositories, run side by side with the in-memory ones
backendState == <<dbShare, dbStore, last>>

\* What the session routes and LLMMenuService leave alone
otherState == <<shareState, backendState, calc>>

\* What the share routes and ShareService leave alone, but the clock
shareFrame == <<menuState, backendState, calc>>

vars == <<clock, store, nextToken, deleteRequested, sessionFiles, returned,
          okRetries, quick_suggestion_model, retryStarts, req, calls,
          svc, obtained, released, shareStore, shareIssued, nextShare,
          shareReq, dbShare, dbStore, last, calc>>

----------------------------------------------------------------------------
\* Bounds of the model
MaxClock == 2
MaxBatches == 1
MaxImages == 1
MaxRetryStarts == 2
MaxCapRetryStarts == 7
MaxIncrements == 3
MaxServiceOps == 2
MaxBatchImages == 2
SessionTtl == 1
MaxShares == 2
ShareTtl == 1
MaxTime == 7

\* Program constants
MAX_SESSION_RETRIES == 5

Requests == {"r1", "r2"}
Callers == {"c1", "c2"}
Tokens == 1..MaxBatches
ShareSlots == {"s1", "s2"}
ShareTokens == 1..MaxShares
Templates == {"menuA", "menuB"}
NoRecord == [absent |-> TRUE]

Range(s) == {s[i] : i \in DOMAIN s}

\* The ids upload_images returns for the n images of batch b
FileIds(b, n) == [i \in 1..n |-> <<b, i>>]

----------------------------------------------------------------------------
\* UploadSessionRecord

NewRecord(token, file_ids, now) ==
    [token |-> token, file_ids |-> file_ids, created_at |-> now,
     expires_at |-> now + SessionTtl, retry_count |-> 0]

IsExpired(rec, now) == rec.expires_at <= now

\* InMemoryUploadRepository.fetch: the record, or NoRecord for an absent or
\* expired token
FetchResult(st, token, now) ==
    IF st[token] = NoRecord THEN NoRecord
    ELSE IF IsExpired(st[token], now) THEN NoRecord
    ELSE st[token]

\* ... and the store it leaves: an expired entry is popped
FetchStore(st, token, now) ==
    IF st[token] # NoRecord /\ IsExpired(st[token], now)
    THEN [st EXCEPT ![token] = NoRecord]
    ELSE st

\* InMemoryUploadRepository.purge
ExpiredTokens(st, now) ==
    {t \in Tokens : st[t] # NoRecord /\ IsExpired(st[t], now)}

PurgeStoreStrict(st, now) ==
    [t \in Tokens |-> IF st[t] # NoRecord /\ st[t].expires_at < now
                      THEN NoRecord ELSE st[t]]

PurgeStore(st, now) ==
    [t \in Tokens |-> IF t \in ExpiredTokens(st, now) THEN NoRecord ELSE st[t]]

PurgedFiles(st, now) ==
    UNION {Range(st[t].file_ids) : t \in ExpiredTokens(st, now)}

\* InMemoryUploadRepository.increment_retry: the updated record
IncrementedStale(rec) == rec
IncrementedTwice(rec) == [rec EXCEPT !.retry_count = @ + 2]
IncrementedRenewed(rec) ==
    [rec EXCEPT !.retry_count = @ + 1, !.expires_at = @ + SessionTtl]
IncrementedSaturating(rec) ==
    [rec EXCEPT !.retry_count = IF @ > MAX_SESSION_RETRIES THEN @ ELSE @ + 1]
Incremented(rec) == [rec EXCEPT !.retry_count = @ + 1]

\* retry_menu: retry_count > _MAX_SESSION_RETRIES
RetryLimitLax(count) == count > MAX_SESSION_RETRIES + 1
RetryLimitOnce(count) == count = MAX_SESSION_RETRIES + 1
RetryLimitReached(count) == count > MAX_SESSION_RETRIES

----------------------------------------------------------------------------
\* Requests

IdleRequest ==
    [pc |-> "idle", kind |-> "none", token |-> 0, file_ids |-> <<>>,
     retry_count |-> 0, sugg |-> "none", cancelCalled |-> FALSE,
     extraction |-> "none", quick_suggestion |-> "", result |-> "none",
     okBefore |-> 0, uploadCalls |-> 0, extractCalls |-> 0, suggCalls |-> 0,
     session_id |-> 0, limitedBefore |-> FALSE, deletedFiles |-> {}]

IdleCall ==
    [pc |-> "idle", op |-> "none", token |-> 0, result |-> "none",
     count |-> 0, purged |-> {}, expired |-> FALSE, raced |-> FALSE]

\* batch: the number of the operation, which names its uploads
IdleService(batch) ==
    [pc |-> "idle", op |-> "none", batch |-> batch, uploads |-> <<>>,
     file_ids |-> <<>>, sugg |-> "none", include |-> FALSE, timeout |-> FALSE,
     extraction |-> "none", exit |-> "none", quick_suggestion |-> "",
     result |-> "none"]

\* A share request (create_share_link, get_shared_menu) or a direct call of
\* ShareService; isExpired, wasIssued and readAt record the instant of its read
IdleShare ==
    [pc |-> "idle", kind |-> "none", token |-> 0, template |-> "",
     result |-> "none", expires_at |-> 0, ttl_seconds |-> 0,
     isExpired |-> FALSE, wasIssued |-> FALSE, readAt |-> 0]

\* A repository call and what each backend answered: the kind of answer,
\* the record or template or count it carried, the records a purge returned
NoAnswer == [kind |-> "none", record |-> NoRecord, count |-> 0, purged |-> {}]

NoCall == [op |-> "none", token |-> 0, memory |-> NoAnswer, database |-> NoAnswer]

\* No function is under test
NoCalc == [fn |-> "none"]

\* The stores, requests and services after construction
InitProgram ==
    /\ clock = 0
    /\ store = [t \in Tokens |-> NoRecord]
    /\ nextToken = 1
    /\ deleteRequested = {}
    /\ sessionFiles = [t \in Tokens |-> <<>>]
    /\ returned = [t \in Tokens |-> <<>>]
    /\ okRetries = [t \in Tokens |-> 0]
    /\ quick_suggestion_model \in BOOLEAN
    /\ retryStarts = 0
    /\ req = [r \in Requests |-> IdleRequest]
    /\ calls = [c \in Callers |-> IdleCall]
    /\ svc = IdleService(1)
    /\ obtained = {}
    /\ released = {}
    /\ shareStore = [t \in ShareTokens |-> NoRecord]
    /\ shareIssued = [t \in ShareTokens |-> NoRecord]
    /\ nextShare = 1
    /\ shareReq = [s \in ShareSlots |-> IdleShare]
    /\ dbShare = [t \in ShareTokens |-> NoRecord]
    /\ dbStore = [t \in Tokens |-> NoRecord]
    /\ last = NoCall

Init == InitProgram /\ calc = NoCalc

\* datetime.now advances
Tick ==
    /\ clock < MaxClock
    /\ clock' = clock + 1
    /\ UNCHANGED <<store, nextToken, deleteRequested, sessionFiles, returned,
                   okRetries, retryStarts, req,
                   quick_suggestion_model, calls,
                   svc, obtained, released, otherState>>

\* The token has been handed to a client by create_session
Created(t) == sessionFiles[t] # <<>>

Finish(r, result) == [req[r] EXCEPT !.pc = "done", !.result = result]

\* POST /menu/process with valid files
StartProcess(r) ==
    /\ req[r].pc = "idle"
    /\ nextToken <= MaxBatches
    /\ req' = [req EXCEPT ![r] = [IdleRequest EXCEPT !.pc = "purge", !.kind = "process"]]
    /\ UNCHANGED <<clock, store, nextToken, deleteRequested, sessionFiles,
                   returned, okRetries, retryStarts,
                   quick_suggestion_model, calls,
                   svc, obtained, released, otherState>>

\* The files of a POST /menu/process: each has a content type and a body
\* that is empty or not
UploadedFiles ==
    UNION {[1..n -> [content_type : {"image/jpeg", "text/plain"},
                     empty : BOOLEAN]] : n \in 0..MaxBatchImages}

\* process_menu: `if not files`, then per file the content type and the
\* body, in the order of the list; the detail of the 400, or "none"
RECURSIVE ValidationError(_)
ValidationError(files) ==
    IF files = <<>> THEN "At least one image is required"
    ELSE LET rest == IF Len(files) = 1 THEN "none"
                     ELSE ValidationError(Tail(files))
         IN CASE Head(files).content_type # "image/jpeg" -> "Unsupported file type"
              [] Head(files).empty -> "Empty file uploaded"
              [] OTHER -> rest

RejectProcessAfterPurge(r) ==
    /\ req[r].pc = "idle"
    /\ \E files \in UploadedFiles :
         /\ ValidationError(files) # "none"
         /\ req' = [req EXCEPT ![r] =
                      [[IdleRequest EXCEPT !.kind = "process"]
                          EXCEPT !.pc = "done", !.result = "400"]]
    /\ store' = PurgeStore(store, clock)
    /\ deleteRequested' = deleteRequested \cup PurgedFiles(store, clock)
    /\ UNCHANGED <<clock, nextToken, sessionFiles,
                   returned, okRetries, retryStarts,
                   quick_suggestion_model, calls,
                   svc, obtained, released, otherState>>

\* POST /menu/process with no file, or with a file of another type or an
\* empty one: HTTPException(400) before _purge_expired_sessions
RejectProcess(r) ==
    /\ req[r].pc = "idle"
    /\ \E files \in UploadedFiles :
         /\ ValidationError(files) # "none"
         /\ req' = [req EXCEPT ![r] =
                      [[IdleRequest EXCEPT !.kind = "process"]
                          EXCEPT !.pc = "done", !.result = "400"]]
    /\ UNCHANGED <<clock, store, nextToken, deleteRequested, sessionFiles,
                   returned, okRetries, retryStarts,
                   quick_suggestion_model, calls,
                   svc, obtained, released, otherState>>

\* A retry of the session has been answered 429: increment_retry returned a
\* count over the cap
LimitAnswered(t) ==
    \E i \in DOMAIN returned[t] : RetryLimitReached(returned[t][i])

\* POST /menu/retry
StartRetryUpTo(r, limit) ==
    /\ req[r].pc = "idle"
    /\ retryStarts < limit
    /\ \E t \in Tokens :
         /\ Created(t)
         /\ req' = [req EXCEPT ![r] = [IdleRequest EXCEPT !.pc = "purge",
                     !.kind = "retry", !.token = t, !.okBefore = okRetries[t],
                     !.limitedBefore = LimitAnswered(t)]]
    /\ retryStarts' = retryStarts + 1
    /\ UNCHANGED <<clock, store, nextToken, deleteRequested, sessionFiles,
                   returned, okRetries,
                   quick_suggestion_model, calls,
                   svc, obtained, released, otherState>>

StartRetry(r) == StartRetryUpTo(r, MaxRetryStarts)

\* DELETE /menu/session/{session_id}
StartDelete(r) ==
    /\ req[r].pc = "idle"
    /\ \E t \in Tokens :
         /\ Created(t)
         /\ req' = [req EXCEPT ![r] = [IdleRequest EXCEPT !.pc = "purge",
                     !.kind = "delete", !.token = t]]
    /\ UNCHANGED <<clock, store, nextToken, deleteRequested, sessionFiles,
                   returned, okRetries, retryStarts,
                   quick_suggestion_model, calls,
                   svc, obtained, released, otherState>>

\* _purge_expired_sessions: purge_expired, then delete_files for every
\* record it returned
PurgeExpiredSessions(r) ==
    /\ req[r].pc = "purge"
    /\ store' = PurgeStore(store, clock)
    /\ deleteRequested' = deleteRequested \cup PurgedFiles(store, clock)
    /\ req' = [req EXCEPT ![r].pc =
                 IF req[r].kind = "process" THEN "upload" ELSE "describe"]
    /\ UNCHANGED <<clock, nextToken, sessionFiles, returned, okRetries, retryStarts,
                   quick_suggestion_model, calls,
                   svc, obtained, released, otherState>>

\* process_menu: menu_service.upload_images succeeds for the whole batch
UploadSucceeds(r) ==
    /\ req[r].pc = "upload"
    /\ \E n \in 1..MaxImages :
         req' = [req EXCEPT ![r].pc = "generate",
                            ![r].file_ids = FileIds(nextToken, n),
                            ![r].token = nextToken,
                            ![r].uploadCalls = 1]
    /\ nextToken' = nextToken + 1
    /\ UNCHANGED <<clock, store, deleteRequested, sessionFiles, returned,
                   okRetries, retryStarts,
                   quick_suggestion_model, calls,
                   svc, obtained, released, otherState>>

\* process_menu: upload_images raises; nothing was returned to the handler
UploadFails(r) ==
    /\ req[r].pc = "upload"
    /\ req' = [req EXCEPT ![r] = [Finish(r, "500") EXCEPT !.uploadCalls = 1]]
    /\ UNCHANGED <<clock, store, nextToken, deleteRequested, sessionFiles,
                   returned, okRetries, retryStarts,
                   quick_suggestion_model, calls,
                   svc, obtained, released, otherState>>

\* retry_menu / suggest_menu_highlights / delete_upload_session:
\* session_service.describe; session_id is record.token
Describe(r) ==
    /\ req[r].pc = "describe"
    /\ LET rec == FetchResult(store, req[r].token, clock) IN
         /\ store' = FetchStore(store, req[r].token, clock)
         /\ req' = [req EXCEPT ![r] =
              IF req[r].kind \in {"retry", "suggest"}
              THEN IF rec = NoRecord THEN Finish(r, "404")
                   ELSE [req[r] EXCEPT
                           !.pc = IF req[r].kind = "retry" THEN "increment" ELSE "suggest",
                           !.file_ids = rec.file_ids,
                           !.session_id = rec.token]
              ELSE IF rec = NoRecord THEN [req[r] EXCEPT !.pc = "delete_record"]
                   ELSE [req[r] EXCEPT !.pc = "delete_files", !.file_ids = rec.file_ids]]
    /\ UNCHANGED <<clock, nextToken, deleteRequested, sessionFiles, returned,
                   okRetries, retryStarts,
                   quick_suggestion_model, calls,
                   svc, obtained, released, otherState>>

\* retry_menu: increment_retry, KeyError -> 404, the retry cap -> 429
IncrementRetry(r) ==
    /\ req[r].pc = "increment"
    /\ LET t == req[r].token IN
       IF store[t] = NoRecord
       THEN /\ req' = [req EXCEPT ![r] = Finish(r, "404")]
            /\ UNCHANGED <<store, returned>>
       ELSE LET updated == Incremented(store[t]) IN
            /\ store' = [store EXCEPT ![t] = updated]
            /\ returned' = [returned EXCEPT ![t] = Append(@, updated.retry_count)]
            /\ req' = [req EXCEPT ![r] =
                 IF RetryLimitReached(updated.retry_count)
                 THEN [Finish(r, "429") EXCEPT !.retry_count = updated.retry_count]
                 ELSE [req[r] EXCEPT !.pc = "generate",
                                     !.retry_count = updated.retry_count]]
    /\ UNCHANGED <<clock, nextToken, deleteRequested, sessionFiles, okRetries,
                   retryStarts,
                   quick_suggestion_model, calls,
                   svc, obtained, released, otherState>>

\* delete_upload_session: menu_service.delete_files(record.file_ids);
\* deletedFiles is what the handler passed
DeleteSessionFilesSkipped(r) ==
    /\ req[r].pc = "delete_files"
    /\ req' = [req EXCEPT ![r].pc = "delete_record"]
    /\ UNCHANGED <<clock, store, nextToken, deleteRequested, sessionFiles,
                   returned, okRetries, retryStarts,
                   quick_suggestion_model, calls,
                   svc, obtained, released, otherState>>
DeleteSessionFiles(r) ==
    /\ req[r].pc = "delete_files"
    /\ deleteRequested' = deleteRequested \cup Range(req[r].file_ids)
    /\ req' = [req EXCEPT ![r].pc = "delete_record",
                          ![r].deletedFiles = Range(req[r].file_ids)]
    /\ UNCHANGED <<clock, store, nextToken, sessionFiles, returned, okRetries,
                   retryStarts,
                   quick_suggestion_model, calls,
                   svc, obtained, released, otherState>>

\* delete_upload_session: session_service.delete, then 204
DeleteSessionRecord(r) ==
    /\ req[r].pc = "delete_record"
    /\ store' = [store EXCEPT ![req[r].token] = NoRecord]
    /\ req' = [req EXCEPT ![r] = Finish(r, "204")]
    /\ UNCHANGED <<clock, nextToken, deleteRequested, sessionFiles, returned,
                   okRetries, retryStarts,
                   quick_suggestion_model, calls,
                   svc, obtained, released, otherState>>

----------------------------------------------------------------------------
\* _generate_menu_from_file_ids

\* `task.cancel(); with suppress(Exception): await task` leaves a running
\* task cancelled and a finished one as it was
AfterCancel(sugg) == IF sugg = "running" THEN "cancelled" ELSE sugg

\* ... and awaiting a cancelled task raises CancelledError, which
\* suppress(Exception) does not stop; otherwise the handler goes on to raise
\* what it meant to
EscapesAfterDrain(sugg, intended) ==
    IF sugg = "running" THEN "CancelledError" ELSE intended

\* What process_menu / retry_menu do with an exception of the generation:
\* process_menu's `except Exception` releases the batch, retry_menu has no
\* handler
GenerationRaises(r, exc, sugg, cancelCalled, extraction) ==
    /\ req' = [req EXCEPT ![r] = [Finish(r, exc) EXCEPT
                  !.sugg = sugg,
                  !.cancelCalled = cancelCalled,
                  !.extraction = extraction]]
    /\ deleteRequested' =
         IF req[r].kind = "process" /\ exc # "CancelledError"
         THEN deleteRequested \cup Range(req[r].file_ids)
         ELSE deleteRequested

\* What they do when it returns
GenerationReturns(r, text) ==
    IF req[r].kind = "process"
    THEN /\ req' = [req EXCEPT ![r].pc = "create_session",
                               ![r].extraction = "ok",
                               ![r].quick_suggestion = text]
         /\ UNCHANGED okRetries
    ELSE /\ req' = [req EXCEPT ![r] = [Finish(r, "200") EXCEPT
                       !.extraction = "ok",
                       !.quick_suggestion = text]]
         /\ okRetries' = [okRetries EXCEPT ![req[r].token] = @ + 1]

\* create_task(generate_quick_suggestions_from_file_ids) when the model is
\* configured, then wait_for(generate_template_from_file_ids)
LaunchGeneration(r) ==
    /\ req[r].pc = "generate"
    /\ req' = [req EXCEPT ![r].pc = "extract",
                          ![r].extractCalls = @ + 1,
                          ![r].sugg = IF quick_suggestion_model THEN "running" ELSE "none",
                          ![r].suggCalls = IF quick_suggestion_model THEN @ + 1 ELSE @]
    /\ UNCHANGED <<clock, store, nextToken, deleteRequested, sessionFiles,
                   returned, okRetries, quick_suggestion_model, retryStarts, calls,
                   svc, obtained, released, otherState>>

\* The suggestion task ends by itself: a text, or RuntimeError
SuggestionTaskEnds(r) ==
    /\ req[r].pc \in {"extract", "await_sugg"}
    /\ req[r].sugg = "running"
    /\ \E outcome \in {"done", "failed"} :
         req' = [req EXCEPT ![r].sugg = outcome]
    /\ UNCHANGED <<clock, store, nextToken, deleteRequested, sessionFiles,
                   returned, okRetries, quick_suggestion_model, retryStarts, calls,
                   svc, obtained, released, otherState>>

\* The extraction returns a template
ExtractSucceeds(r) ==
    /\ req[r].pc = "extract"
    /\ IF req[r].sugg = "none"
       THEN GenerationReturns(r, "")
       ELSE /\ req' = [req EXCEPT ![r].pc = "await_sugg"]
            /\ UNCHANGED okRetries
    /\ UNCHANGED <<clock, store, nextToken, deleteRequested, sessionFiles,
                   returned, quick_suggestion_model, retryStarts, calls,
                   svc, obtained, released, otherState>>

ExtractFailsRetried(r) ==
    /\ req[r].pc = "extract"
    /\ req' = [req EXCEPT ![r].pc = "generate", ![r].extraction = "failed"]
    /\ UNCHANGED <<clock, store, nextToken, deleteRequested, sessionFiles,
                   returned, okRetries, quick_suggestion_model, retryStarts, calls,
                   svc, obtained, released, otherState>>

\* The extraction raises (upstream call failure, malformed response):
\* `except Exception` cancels and drains the suggestion task and re-raises
ExtractFails(r) ==
    /\ req[r].pc = "extract"
    /\ GenerationRaises(r, EscapesAfterDrain(req[r].sugg, "500"),
                        AfterCancel(req[r].sugg), req[r].sugg # "none", "failed")
    /\ UNCHANGED <<clock, store, nextToken, sessionFiles, returned, okRetries,
                   quick_suggestion_model, retryStarts, calls,
                   svc, obtained, released, otherState>>

\* wait_for gives up after _MENU_PROCESSING_TIMEOUT_SECONDS:
\* `except asyncio.TimeoutError` cancels and drains the suggestion task and
\* raises HTTPException(504)
ExtractTimesOut(r) ==
    /\ req[r].pc = "extract"
    /\ GenerationRaises(r, EscapesAfterDrain(req[r].sugg, "504"),
                        AfterCancel(req[r].sugg), req[r].sugg # "none", "timeout")
    /\ UNCHANGED <<clock, store, nextToken, sessionFiles, returned, okRetries,
                   quick_suggestion_model, retryStarts, calls,
                   svc, obtained, released, otherState>>

\* The request's task is cancelled while it waits for the extraction (the
\* client went away): CancelledError passes both except clauses, the
\* suggestion task is left as it is
RequestCancelled(r) ==
    /\ req[r].pc = "extract"
    /\ GenerationRaises(r, "CancelledError", req[r].sugg, FALSE, "cancelled")
    /\ UNCHANGED <<clock, store, nextToken, sessionFiles, returned, okRetries,
                   quick_suggestion_model, retryStarts, calls,
                   svc, obtained, released, otherState>>

\* _await_suggestion_task: the task has ended; its text, or "" if it raised
AwaitSuggestion(r) ==
    /\ req[r].pc = "await_sugg"
    /\ req[r].sugg \in {"done", "failed"}
    /\ GenerationReturns(r, IF req[r].sugg = "done" THEN "text" ELSE "")
    /\ UNCHANGED <<clock, store, nextToken, deleteRequested, sessionFiles,
                   returned, quick_suggestion_model, retryStarts, calls,
                   svc, obtained, released, otherState>>

\* _await_suggestion_task: wait_for gives up after
\* _MENU_SUGGESTION_TIMEOUT_SECONDS and cancels the task; the handler's
\* `await task` then raises CancelledError
SuggestionTimesOut(r) ==
    /\ req[r].pc = "await_sugg"
    /\ req[r].sugg = "running"
    /\ GenerationRaises(r, EscapesAfterDrain(req[r].sugg, "200"),
                        AfterCancel(req[r].sugg), TRUE, "ok")
    /\ UNCHANGED <<clock, store, nextToken, sessionFiles, returned, okRetries,
                   quick_suggestion_model, retryStarts, calls,
                   svc, obtained, released, otherState>>

\* process_menu: session_service.create_session stores the record
CreateSession(r) ==
    /\ req[r].pc = "create_session"
    /\ store' = [store EXCEPT ![req[r].token] =
                   NewRecord(req[r].token, req[r].file_ids, clock)]
    /\ sessionFiles' = [sessionFiles EXCEPT ![req[r].token] = req[r].file_ids]
    /\ req' = [req EXCEPT ![r] = [Finish(r, "200") EXCEPT !.session_id = req[r].token]]
    /\ UNCHANGED <<clock, nextToken, deleteRequested, returned, okRetries,
                   quick_suggestion_model, retryStarts, calls,
                   svc, obtained, released, otherState>>

\* process_menu: create_session raises (the database is unreachable);
\* `except Exception` releases the batch
CreateSessionFails(r) ==
    /\ req[r].pc = "create_session"
    /\ deleteRequested' = deleteRequested \cup Range(req[r].file_ids)
    /\ req' = [req EXCEPT ![r] = Finish(r, "500")]
    /\ UNCHANGED <<clock, store, nextToken, sessionFiles, returned, okRetries,
                   quick_suggestion_model, retryStarts, calls,
                   svc, obtained, released, otherState>>

\* The response has been sent; the handler's locals are gone
Respond(r) ==
    /\ req[r].pc = "done"
    /\ req' = [req EXCEPT ![r] = IdleRequest]
    /\ UNCHANGED <<clock, store, nextToken, deleteRequested, sessionFiles,
                   returned, okRetries, retryStarts,
                   quick_suggestion_model, calls,
                   svc, obtained, released, otherState>>

Next ==
    \/ Tick
    \/ \E r \in Requests : StartProcess(r)
    \/ \E r \in Requests : StartRetry(r)
    \/ \E r \in Requests : StartDelete(r)
    \/ \E r \in Requests : PurgeExpiredSessions(r)
    \/ \E r \in Requests : UploadSucceeds(r)
    \/ \E r \in Requests : UploadFails(r)
    \/ \E r \in Requests : Describe(r)
    \/ \E r \in Requests : IncrementRetry(r)
    \/ \E r \in Requests : DeleteSessionFiles(r)
    \/ \E r \in Requests : DeleteSessionRecord(r)
    \/ \E r \in Requests : LaunchGeneration(r)
    \/ \E r \in Requests : SuggestionTaskEnds(r)
    \/ \E r \in Requests : ExtractSucceeds(r)
    \/ \E r \in Requests : ExtractFails(r)
    \/ \E r \in Requests : ExtractTimesOut(r)
    \/ \E r \in Requests : RequestCancelled(r)
    \/ \E r \in Requests : AwaitSuggestion(r)
    \/ \E r \in Requests : SuggestionTimesOut(r)
    \/ \E r \in Requests : CreateSession(r)
    \/ \E r \in Requests : CreateSessionFails(r)
    \/ \E r \in Requests : Respond(r)

Spec == Init /\ [][Next]_vars

\* POST /menu/suggest with an upload_session_id
StartSuggest(r) ==
    /\ req[r].pc = "idle"
    /\ \E t \in Tokens :
         /\ Created(t)
         /\ req' = [req EXCEPT ![r] = [IdleRequest EXCEPT !.pc = "purge",
                     !.kind = "suggest", !.token = t]]
    /\ UNCHANGED <<clock, store, nextToken, deleteRequested, sessionFiles,
                   returned, okRetries, retryStarts,
                   quick_suggestion_model, calls,
                   svc, obtained, released, otherState>>

\* suggest_menu_highlights: wait_for(generate_quick_suggestions_from_file_ids)
\* returns the text; TimeoutError and Exception both give ""
SuggestAnswers(r) ==
    /\ req[r].pc = "suggest"
    /\ \E text \in {"text", ""} :
         req' = [req EXCEPT ![r] = [Finish(r, "200") EXCEPT
                    !.suggCalls = 1, !.quick_suggestion = text]]
    /\ UNCHANGED <<clock, store, nextToken, deleteRequested, sessionFiles,
                   returned, okRetries, retryStarts,
                   quick_suggestion_model, calls,
                   svc, obtained, released, otherState>>

\* One client that retries a session until the cap answers
StartRetryCap(r) == StartRetryUpTo(r, MaxCapRetryStarts)

NextCap ==
    \/ Tick
    \/ StartProcess("r1")
    \/ StartRetryCap("r1")
    \/ PurgeExpiredSessions("r1")
    \/ UploadSucceeds("r1")
    \/ UploadFails("r1")
    \/ Describe("r1")
    \/ IncrementRetry("r1")
    \/ LaunchGeneration("r1")
    \/ SuggestionTaskEnds("r1")
    \/ ExtractSucceeds("r1")
    \/ ExtractFails("r1")
    \/ ExtractTimesOut("r1")
    \/ RequestCancelled("r1")
    \/ AwaitSuggestion("r1")
    \/ SuggestionTimesOut("r1")
    \/ CreateSession("r1")
    \/ CreateSessionFails("r1")
    \/ Respond("r1")

SpecCap == Init /\ [][NextCap]_vars

\* One client whose process requests may be invalid
NextValidate ==
    \/ Tick
    \/ StartProcess("r1")
    \/ RejectProcess("r1")
    \/ PurgeExpiredSessions("r1")
    \/ UploadSucceeds("r1")
    \/ UploadFails("r1")
    \/ LaunchGeneration("r1")
    \/ SuggestionTaskEnds("r1")
    \/ ExtractSucceeds("r1")
    \/ ExtractFails("r1")
    \/ ExtractTimesOut("r1")
    \/ RequestCancelled("r1")
    \/ AwaitSuggestion("r1")
    \/ SuggestionTimesOut("r1")
    \/ CreateSession("r1")
    \/ CreateSessionFails("r1")
    \/ Respond("r1")

SpecValidate == Init /\ [][NextValidate]_vars

\* One client that processes a batch and then reuses, and deletes, its session
NextReuse ==
    \/ NextCap
    \/ StartSuggest("r1")
    \/ SuggestAnswers("r1")
    \/ StartDelete("r1")
    \/ DeleteSessionFiles("r1")
    \/ DeleteSessionRecord("r1")

SpecReuse == Init /\ [][NextReuse]_vars

----------------------------------------------------------------------------
\* UploadSessionService called directly, by several callers at once: a call
\* is invoked, runs (the in-memory repository's methods hold no await, the
\* relational one's increment is a single UPDATE ... RETURNING), and returns

ServiceOps == {"create_session", "describe", "delete", "purge_expired",
               "increment_retry"}

Invoke(c) ==
    /\ calls[c].pc = "idle"
    /\ \E op \in ServiceOps, t \in Tokens :
         calls' = [calls EXCEPT ![c] =
            [IdleCall EXCEPT !.pc = "pending", !.op = op,
                !.token = IF op \in {"create_session", "purge_expired"} THEN 0 ELSE t]]
    /\ UNCHANGED <<clock, store, nextToken, deleteRequested, sessionFiles,
                   returned, okRetries, quick_suggestion_model, retryStarts, req,
                   svc, obtained, released, otherState>>

Answer(c, result) == [calls[c] EXCEPT !.pc = "returned", !.result = result]

\* UploadSessionService.create_session
CreateSessionRuns(c) ==
    /\ calls[c].pc = "pending" /\ calls[c].op = "create_session"
    /\ nextToken <= MaxBatches
    /\ \E n \in 1..MaxImages :
         /\ store' = [store EXCEPT ![nextToken] =
                        NewRecord(nextToken, FileIds(nextToken, n), clock)]
         /\ sessionFiles' = [sessionFiles EXCEPT ![nextToken] = FileIds(nextToken, n)]
    /\ calls' = [calls EXCEPT ![c] = [Answer(c, "token") EXCEPT !.token = nextToken]]
    /\ nextToken' = nextToken + 1
    /\ UNCHANGED <<clock, deleteRequested, returned, okRetries,
                   quick_suggestion_model, retryStarts, req,
                   svc, obtained, released, otherState>>

\* UploadSessionService.describe
DescribeRuns(c) ==
    /\ calls[c].pc = "pending" /\ calls[c].op = "describe"
    /\ LET t == calls[c].token IN
         /\ store' = FetchStore(store, t, clock)
         /\ calls' = [calls EXCEPT ![c] =
              [Answer(c, IF FetchResult(store, t, clock) = NoRecord
                         THEN "None" ELSE "record")
                 EXCEPT !.expired = (store[t] # NoRecord /\ IsExpired(store[t], clock))]]
    /\ UNCHANGED <<clock, nextToken, deleteRequested, sessionFiles, returned,
                   okRetries, quick_suggestion_model, retryStarts, req,
                   svc, obtained, released, otherState>>

DeleteRunsStrict(c) ==
    /\ calls[c].pc = "pending" /\ calls[c].op = "delete"
    /\ store' = [store EXCEPT ![calls[c].token] = NoRecord]
    /\ calls' = [calls EXCEPT ![c] =
         Answer(c, IF store[calls[c].token] = NoRecord THEN "KeyError" ELSE "None")]
    /\ UNCHANGED <<clock, nextToken, deleteRequested, sessionFiles, returned,
                   okRetries, quick_suggestion_model, retryStarts, req,
                   svc, obtained, released, otherState>>

\* UploadSessionService.delete
DeleteRuns(c) ==
    /\ calls[c].pc = "pending" /\ calls[c].op = "delete"
    /\ store' = [store EXCEPT ![calls[c].token] = NoRecord]
    /\ calls' = [calls EXCEPT ![c] = Answer(c, "None")]
    /\ UNCHANGED <<clock, nextToken, deleteRequested, sessionFiles, returned,
                   okRetries, quick_suggestion_model, retryStarts, req,
                   svc, obtained, released, otherState>>

\* UploadSessionService.purge_expired
PurgeRuns(c) ==
    /\ calls[c].pc = "pending" /\ calls[c].op = "purge_expired"
    /\ store' = PurgeStore(store, clock)
    /\ calls' = [calls EXCEPT ![c] =
         [Answer(c, "records") EXCEPT !.purged = ExpiredTokens(store, clock)]]
    /\ UNCHANGED <<clock, nextToken, deleteRequested, sessionFiles, returned,
                   okRetries, quick_suggestion_model, retryStarts, req,
                   svc, obtained, released, otherState>>

\* UploadSessionService.increment_retry
IncrementRetryRuns(c) ==
    /\ calls[c].pc = "pending" /\ calls[c].op = "increment_retry"
    /\ LET t == calls[c].token IN
       IF store[t] = NoRecord
       THEN /\ calls' = [calls EXCEPT ![c] = Answer(c, "KeyError")]
            /\ UNCHANGED <<store, returned>>
       ELSE LET updated == Incremented(store[t]) IN
            /\ Len(returned[t]) < MaxIncrements
            /\ store' = [store EXCEPT ![t] = updated]
            /\ returned' = [returned EXCEPT ![t] = Append(@, updated.retry_count)]
            /\ calls' = [calls EXCEPT ![c] =
                 [Answer(c, "count")
                    EXCEPT !.count = updated.retry_count,
                           !.expired = IsExpired(store[t], clock),
                           !.raced = \E d \in Callers \ {c} :
                                        /\ calls[d].pc = "pending"
                                        /\ calls[d].op = "increment_retry"
                                        /\ calls[d].token = t]]
    /\ UNCHANGED <<clock, nextToken, deleteRequested, sessionFiles, okRetries,
                   quick_suggestion_model, retryStarts, req,
                   svc, obtained, released, otherState>>

\* The caller has its answer
Returns(c) ==
    /\ calls[c].pc = "returned"
    /\ calls' = [calls EXCEPT ![c] = IdleCall]
    /\ UNCHANGED <<clock, store, nextToken, deleteRequested, sessionFiles,
                   returned, okRetries, quick_suggestion_model, retryStarts, req,
                   svc, obtained, released, otherState>>

NextService ==
    \/ Tick
    \/ \E c \in Callers : Invoke(c)
    \/ \E c \in Callers : CreateSessionRuns(c)
    \/ \E c \in Callers : DescribeRuns(c)
    \/ \E c \in Callers : DeleteRuns(c)
    \/ \E c \in Callers : PurgeRuns(c)
    \/ \E c \in Callers : IncrementRetryRuns(c)
    \/ \E c \in Callers : Returns(c)

InitService == Init /\ quick_suggestion_model

SpecService == InitService /\ [][NextService]_vars

\* Deletion of sessions: one caller of UploadSessionService and one client
\* of DELETE /menu/session/{session_id}
NextSessionDelete ==
    \/ Tick
    \/ Invoke("c1")
    \/ CreateSessionRuns("c1")
    \/ DescribeRuns("c1")
    \/ DeleteRuns("c1")
    \/ PurgeRuns("c1")
    \/ IncrementRetryRuns("c1")
    \/ Returns("c1")
    \/ StartDelete("r1")
    \/ PurgeExpiredSessions("r1")
    \/ Describe("r1")
    \/ DeleteSessionFiles("r1")
    \/ DeleteSessionRecord("r1")
    \/ Respond("r1")

SpecSessionDelete == InitService /\ [][NextSessionDelete]_vars

----------------------------------------------------------------------------
\* LLMMenuService: the operations that upload through _image_batch

PipelineOps == {"generate_menu_template", "process_menu",
                "generate_quick_suggestions"}

\* What generate_template_from_file_ids raises: RuntimeError for a failed
\* call, an empty output_text or a payload without items (OpenAIError is
\* wrapped there), json.JSONDecodeError for text that is not JSON
ExtractionErrors == {"RuntimeError", "JSONDecodeError"}

\* process_menu: `except OpenAIError` around the extraction
HandlerCatches(exc) == exc = "OpenAIError"

\* _image_batch: the ids `finally: await self._delete_files(file_ids)`
\* releases, whatever way the body was left
ReleasedOnReturnOnly(exit, file_ids) ==
    IF exit = "return" THEN Range(file_ids) ELSE {}
ReleasedOnExit(exit, file_ids) == Range(file_ids)

ServiceUnchanged ==
    UNCHANGED <<clock, store, nextToken, deleteRequested, sessionFiles,
                returned, okRetries, quick_suggestion_model, retryStarts, req,
                calls, otherState>>

\* The operation is called with n images; _upload_images creates one
\* files.create call per image and gathers them
ServiceStart ==
    /\ svc.pc = "idle"
    /\ svc.batch <= MaxServiceOps
    /\ \E op \in PipelineOps, n \in 1..MaxBatchImages, inc \in BOOLEAN, tmo \in BOOLEAN :
         /\ op # "process_menu" => (~inc /\ ~tmo)
         /\ svc' = [svc EXCEPT !.pc = "uploading", !.op = op,
                               !.uploads = [i \in 1..n |-> "pending"],
                               !.include = inc, !.timeout = tmo]
    /\ UNCHANGED <<obtained, released>>
    /\ ServiceUnchanged

\* One files.create call returns its id (also after gather has raised: the
\* other uploads of the batch are not cancelled)
FileUploaded ==
    /\ \E i \in DOMAIN svc.uploads :
         /\ svc.uploads[i] = "pending"
         /\ svc' = [svc EXCEPT !.uploads[i] = "ok"]
         /\ obtained' = obtained \cup {<<svc.batch, i>>}
    /\ UNCHANGED released
    /\ ServiceUnchanged

\* One files.create call raises: gather raises it to _upload_images, which
\* returns no ids; _image_batch has not entered its try yet
FileUploadFails ==
    /\ \E i \in DOMAIN svc.uploads :
         /\ svc.uploads[i] = "pending"
         /\ svc' = IF svc.pc = "uploading"
                   THEN [svc EXCEPT !.uploads[i] = "failed", !.pc = "done",
                                    !.result = "UploadError"]
                   ELSE [svc EXCEPT !.uploads[i] = "failed"]
    /\ UNCHANGED <<obtained, released>>
    /\ ServiceUnchanged

GatherReturnsEarly ==
    /\ svc.pc = "uploading"
    /\ \E i \in DOMAIN svc.uploads : svc.uploads[i] = "ok"
    /\ svc' = [svc EXCEPT !.pc = "body",
                  !.file_ids = FileIds(svc.batch, Len(svc.uploads)),
                  !.sugg = IF svc.op = "process_menu" /\ svc.include
                              /\ quick_suggestion_model
                           THEN "running" ELSE "none"]
    /\ UNCHANGED <<obtained, released>>
    /\ ServiceUnchanged

\* gather returns every id; the body of `async with` starts: process_menu
\* creates the suggestion task, then awaits the extraction
GatherReturns ==
    /\ svc.pc = "uploading"
    /\ \A i \in DOMAIN svc.uploads : svc.uploads[i] = "ok"
    /\ svc' = [svc EXCEPT !.pc = "body",
                  !.file_ids = FileIds(svc.batch, Len(svc.uploads)),
                  !.sugg = IF svc.op = "process_menu" /\ svc.include
                              /\ quick_suggestion_model
                           THEN "running" ELSE "none"]
    /\ UNCHANGED <<obtained, released>>
    /\ ServiceUnchanged

\* The suggestion task of process_menu ends by itself, whether or not
\* process_menu is still there
ServiceSuggestionEnds ==
    /\ svc.sugg = "running"
    /\ \E outcome \in {"done", "failed"} : svc' = [svc EXCEPT !.sugg = outcome]
    /\ UNCHANGED <<obtained, released>>
    /\ ServiceUnchanged

LeaveBody(exit, result) == [svc EXCEPT !.pc = "exited", !.exit = exit, !.result = result]

\* The awaited inference call of the body returns
InferenceReturns ==
    /\ svc.pc = "body"
    /\ svc' = IF svc.op = "process_menu" /\ svc.sugg # "none"
              THEN [svc EXCEPT !.pc = "consume", !.extraction = "ok"]
              ELSE [LeaveBody("return", "ok") EXCEPT !.extraction = "ok"]
    /\ UNCHANGED <<obtained, released>>
    /\ ServiceUnchanged

\* The awaited inference call of the body raises
InferenceRaises ==
    /\ svc.pc = "body"
    /\ \E exc \in ExtractionErrors :
         svc' = [LeaveBody("exception", exc) EXCEPT
                   !.extraction = "failed",
                   !.sugg = IF svc.op = "process_menu" /\ HandlerCatches(exc)
                            THEN AfterCancel(svc.sugg) ELSE svc.sugg]
    /\ UNCHANGED <<obtained, released>>
    /\ ServiceUnchanged

\* The caller's task is cancelled while the body awaits
ServiceCancelled ==
    /\ svc.pc \in {"body", "consume"}
    /\ svc' = [LeaveBody("cancelled", "CancelledError") EXCEPT
                 !.sugg = IF svc.pc = "consume" THEN AfterCancel(svc.sugg) ELSE svc.sugg]
    /\ UNCHANGED <<obtained, released>>
    /\ ServiceUnchanged

\* _consume_suggestion_task: the task has ended
ConsumeSuggestion ==
    /\ svc.pc = "consume"
    /\ svc.sugg \in {"done", "failed"}
    /\ svc' = [LeaveBody("return", "ok") EXCEPT
                 !.quick_suggestion = IF svc.sugg = "done" THEN "text" ELSE ""]
    /\ UNCHANGED <<obtained, released>>
    /\ ServiceUnchanged

\* _consume_suggestion_task: wait_for(task, suggestion_timeout) gives up
ConsumeTimesOut ==
    /\ svc.pc = "consume"
    /\ svc.timeout
    /\ svc.sugg = "running"
    /\ svc' = [LeaveBody("cancelled", EscapesAfterDrain(svc.sugg, "ok")) EXCEPT
                 !.sugg = AfterCancel(svc.sugg)]
    /\ UNCHANGED <<obtained, released>>
    /\ ServiceUnchanged

\* _image_batch: finally, _delete_files(file_ids)
ImageBatchFinally ==
    /\ svc.pc = "exited"
    /\ released' = released \cup ReleasedOnExit(svc.exit, svc.file_ids)
    /\ svc' = [svc EXCEPT !.pc = "done"]
    /\ UNCHANGED obtained
    /\ ServiceUnchanged

\* The operation has returned or raised to its caller
ServiceReturns ==
    /\ svc.pc = "done"
    /\ svc' = IdleService(svc.batch + 1)
    /\ UNCHANGED <<obtained, released>>
    /\ ServiceUnchanged

NextPipeline ==
    \/ ServiceStart
    \/ FileUploaded
    \/ FileUploadFails
    \/ GatherReturns
    \/ ServiceSuggestionEnds
    \/ InferenceReturns
    \/ InferenceRaises
    \/ ServiceCancelled
    \/ ConsumeSuggestion
    \/ ConsumeTimesOut
    \/ ImageBatchFinally
    \/ ServiceReturns

SpecPipeline == Init /\ [][NextPipeline]_vars

----------------------------------------------------------------------------
\* ShareService over InMemoryShareRepository, and the /menu/share routes

\* ShareRecord.ttl_seconds / UploadSessionRecord.ttl_seconds at time now:
\* int(remaining) if remaining > 0 else 0
TtlSecondsUnclamped(expires_at, now) == expires_at - now
TtlSeconds(expires_at, now) ==
    IF expires_at - now > 0 THEN expires_at - now ELSE 0

\* ShareService.create_template: the entry stored under the token
NewShare(template, now) ==
    [template |-> template, created_at |-> now, expires_at |-> now + ShareTtl]

\* InMemoryShareRepository.fetch: now > expires_at
ShareIsStale(entry, now) == now > entry.expires_at

ShareFetchResult(st, token, now) ==
    IF st[token] = NoRecord THEN NoRecord
    ELSE IF ShareIsStale(st[token], now) THEN NoRecord
    ELSE st[token]

ShareFetchStore(st, token, now) ==
    IF st[token] # NoRecord /\ ShareIsStale(st[token], now)
    THEN [st EXCEPT ![token] = NoRecord]
    ELSE st

\* InMemoryShareRepository.purge: expires_at <= now
SharePurgeStore(st, now) ==
    [t \in ShareTokens |->
        IF st[t] # NoRecord /\ st[t].expires_at <= now THEN NoRecord ELSE st[t]]

ShareRoutes == {"create_share_link", "get_shared_menu"}
ShareCalls == {"create_template", "describe", "fetch_template", "purge_expired"}

ShareFinish(s, result) == [shareReq[s] EXCEPT !.pc = "done", !.result = result]

\* A request arrives at a share route, or ShareService is called directly
ShareStart(s) ==
    /\ shareReq[s].pc = "idle"
    /\ \E kind \in ShareRoutes \cup ShareCalls, t \in ShareTokens, tpl \in Templates :
         shareReq' = [shareReq EXCEPT ![s] =
            [IdleShare EXCEPT
               !.kind = kind,
               !.pc = CASE kind \in ShareRoutes \cup {"purge_expired"} -> "purge"
                        [] kind = "create_template" -> "create"
                        [] OTHER -> "fetch",
               !.token = IF kind \in {"get_shared_menu", "describe", "fetch_template"}
                         THEN t ELSE 0,
               !.template = IF kind \in {"create_share_link", "create_template"}
                            THEN tpl ELSE ""]]
    /\ UNCHANGED <<clock, shareFrame, shareStore, shareIssued, nextShare>>

\* ShareService.purge_expired
SharePurge(s) ==
    /\ shareReq[s].pc = "purge"
    /\ shareStore' = SharePurgeStore(shareStore, clock)
    /\ shareReq' = [shareReq EXCEPT ![s] =
         CASE shareReq[s].kind = "create_share_link" -> [shareReq[s] EXCEPT !.pc = "create"]
           [] shareReq[s].kind = "get_shared_menu" -> [shareReq[s] EXCEPT !.pc = "fetch"]
           [] OTHER -> ShareFinish(s, "None")]
    /\ UNCHANGED <<clock, shareFrame, shareIssued, nextShare>>

\* ShareService.create_template
ShareCreate(s) ==
    /\ shareReq[s].pc = "create"
    /\ nextShare <= MaxShares
    /\ LET entry == NewShare(shareReq[s].template, clock) IN
         /\ shareStore' = [shareStore EXCEPT ![nextShare] = entry]
         /\ shareIssued' = [shareIssued EXCEPT ![nextShare] = entry]
    /\ shareReq' = [shareReq EXCEPT ![s] =
         IF shareReq[s].kind = "create_share_link"
         THEN [shareReq[s] EXCEPT !.pc = "fetch", !.token = nextShare]
         ELSE [ShareFinish(s, "token") EXCEPT !.token = nextShare]]
    /\ nextShare' = nextShare + 1
    /\ UNCHANGED <<clock, shareFrame>>

\* ShareService.describe / fetch_template, and what the routes make of the
\* answer: get_shared_menu 404 or the template, create_share_link
\* RuntimeError or on to its response
ShareFetch(s) ==
    /\ shareReq[s].pc = "fetch"
    /\ LET t == shareReq[s].token
           rec == ShareFetchResult(shareStore, t, clock)
           seen == [shareReq[s] EXCEPT
                      !.readAt = clock,
                      !.wasIssued = shareIssued[t] # NoRecord,
                      !.isExpired = /\ shareIssued[t] # NoRecord
                                    /\ shareIssued[t].expires_at <= clock,
                      !.template = IF rec = NoRecord THEN "" ELSE rec.template,
                      !.expires_at = IF rec = NoRecord THEN 0 ELSE rec.expires_at]
       IN
         /\ shareStore' = ShareFetchStore(shareStore, t, clock)
         /\ shareReq' = [shareReq EXCEPT ![s] =
              CASE shareReq[s].kind = "create_share_link" ->
                     IF rec = NoRecord
                     THEN [seen EXCEPT !.pc = "done", !.result = "RuntimeError"]
                     ELSE [seen EXCEPT !.pc = "respond"]
                [] shareReq[s].kind = "get_shared_menu" ->
                     [seen EXCEPT !.pc = "done",
                                  !.result = IF rec = NoRecord THEN "404" ELSE "200"]
                [] OTHER ->
                     [seen EXCEPT !.pc = "done",
                                  !.result = IF rec = NoRecord THEN "None" ELSE "record"]]
    /\ UNCHANGED <<clock, shareFrame, shareIssued, nextShare>>

\* create_share_link: ShareMenuResponse with record.ttl_seconds, which reads
\* the clock again
ShareRespond(s) ==
    /\ shareReq[s].pc = "respond"
    /\ shareReq' = [shareReq EXCEPT ![s] =
         [ShareFinish(s, "200") EXCEPT
            !.ttl_seconds = TtlSeconds(shareReq[s].expires_at, clock)]]
    /\ UNCHANGED <<clock, shareFrame, shareStore, shareIssued, nextShare>>

\* The answer has been delivered
ShareReturn(s) ==
    /\ shareReq[s].pc = "done"
    /\ shareReq' = [shareReq EXCEPT ![s] = IdleShare]
    /\ UNCHANGED <<clock, shareFrame, shareStore, shareIssued, nextShare>>

NextShare ==
    \/ Tick
    \/ \E s \in ShareSlots : ShareStart(s)
    \/ \E s \in ShareSlots : SharePurge(s)
    \/ \E s \in ShareSlots : ShareCreate(s)
    \/ \E s \in ShareSlots : ShareFetch(s)
    \/ \E s \in ShareSlots : ShareRespond(s)
    \/ \E s \in ShareSlots : ShareReturn(s)

SpecShare == InitService /\ [][NextShare]_vars

\* Reads of both stores: one caller of UploadSessionService and one of
\* ShareService
NextReads ==
    \/ Tick
    \/ Invoke("c1")
    \/ CreateSessionRuns("c1")
    \/ DescribeRuns("c1")
    \/ DeleteRuns("c1")
    \/ PurgeRuns("c1")
    \/ IncrementRetryRuns("c1")
    \/ Returns("c1")
    \/ ShareStart("s1")
    \/ SharePurge("s1")
    \/ ShareCreate("s1")
    \/ ShareFetch("s1")
    \/ ShareRespond("s1")
    \/ ShareReturn("s1")

SpecReads == InitService /\ [][NextReads]_vars

----------------------------------------------------------------------------
\* The in-memory and the relational repositories side by side: every call is
\* made of both at the same clock value, and both answers are kept

\* What the repositories leave alone, but the clock
backendFrame ==
    <<deleteRequested, sessionFiles, returned, okRetries,
      quick_suggestion_model, retryStarts, req, calls, svc, obtained, released,
      shareIssued, shareReq, calc>>

\* DatabaseShareRepository.store: template.model_dump() into the JSONB column
ModelDump(template) == <<"json", template>>

\* DatabaseShareRepository.fetch: MenuTemplate.model_validate(row.template_json)
ModelValidate(template_json) == template_json[2]

ShareRow(token, template, created_at, expires_at) ==
    [token |-> token, template_json |-> ModelDump(template),
     created_at |-> created_at, expires_at |-> expires_at]

\* ShareRecord(token, template, created_at, expires_at)
ShareRecord(token, template, created_at, expires_at) ==
    [token |-> token, template |-> template,
     created_at |-> created_at, expires_at |-> expires_at]

\* DatabaseShareRepository.fetch: row.expires_at <= now deletes the row
DbShareFetchResult(rows, token, now) ==
    IF rows[token] = NoRecord THEN NoRecord
    ELSE IF rows[token].expires_at <= now THEN NoRecord
    ELSE ShareRecord(rows[token].token, ModelValidate(rows[token].template_json),
                     rows[token].created_at, rows[token].expires_at)

DbShareFetchRows(rows, token, now) ==
    IF rows[token] # NoRecord /\ rows[token].expires_at <= now
    THEN [rows EXCEPT ![token] = NoRecord]
    ELSE rows

\* DatabaseShareRepository.purge: delete where expires_at <= now
DbSharePurgeRows(rows, now) ==
    [t \in ShareTokens |->
        IF rows[t] # NoRecord /\ rows[t].expires_at <= now THEN NoRecord ELSE rows[t]]

\* DatabaseUploadRepository.store: the row of a record
SessionRow(rec) ==
    [token |-> rec.token, file_ids |-> rec.file_ids, retry_count |-> rec.retry_count,
     created_at |-> rec.created_at, expires_at |-> rec.expires_at]

\* DatabaseUploadRepository.fetch / purge: the record of a row
SessionRecord(row) ==
    [token |-> row.token, file_ids |-> row.file_ids, created_at |-> row.created_at,
     expires_at |-> row.expires_at, retry_count |-> row.retry_count]

\* DatabaseUploadRepository.fetch
DbFetchResult(rows, token, now) ==
    IF rows[token] = NoRecord THEN NoRecord
    ELSE IF rows[token].expires_at <= now THEN NoRecord
    ELSE SessionRecord(rows[token])

DbFetchRows(rows, token, now) ==
    IF rows[token] # NoRecord /\ rows[token].expires_at <= now
    THEN [rows EXCEPT ![token] = NoRecord]
    ELSE rows

\* DatabaseUploadRepository.purge
DbExpiredTokens(rows, now) ==
    {t \in Tokens : rows[t] # NoRecord /\ rows[t].expires_at <= now}

DbPurgeRows(rows, now) ==
    [t \in Tokens |-> IF t \in DbExpiredTokens(rows, now) THEN NoRecord ELSE rows[t]]

\* DatabaseUploadRepository.increment_retry:
\* UPDATE ... SET retry_count = retry_count + 1 ... RETURNING retry_count
DbIncremented(row) == [row EXCEPT !.retry_count = @ + 1]

Answered(kind) == [NoAnswer EXCEPT !.kind = kind]

FetchAnswer(rec) ==
    IF rec = NoRecord THEN Answered("None")
    ELSE [Answered("record") EXCEPT !.record = rec]

\* ShareService.create_template on both backends
BothShareStore ==
    /\ nextShare <= MaxShares
    /\ \E template \in Templates :
         /\ shareStore' = [shareStore EXCEPT ![nextShare] = NewShare(template, clock)]
         /\ dbShare' = [dbShare EXCEPT ![nextShare] =
                          ShareRow(nextShare, template, clock, clock + ShareTtl)]
    /\ last' = [op |-> "share.store", token |-> nextShare,
                memory |-> Answered("None"), database |-> Answered("None")]
    /\ nextShare' = nextShare + 1
    /\ UNCHANGED <<clock, backendFrame, store, nextToken, dbStore>>

\* fetch on both share repositories
BothShareFetch ==
    /\ \E t \in ShareTokens :
         LET m == ShareFetchResult(shareStore, t, clock) IN
         /\ shareStore' = ShareFetchStore(shareStore, t, clock)
         /\ dbShare' = DbShareFetchRows(dbShare, t, clock)
         /\ last' = [op |-> "share.fetch", token |-> t,
                     memory |-> FetchAnswer(
                        IF m = NoRecord THEN NoRecord
                        ELSE ShareRecord(t, m.template, m.created_at, m.expires_at)),
                     database |-> FetchAnswer(DbShareFetchResult(dbShare, t, clock))]
    /\ UNCHANGED <<clock, backendFrame, store, nextToken, dbStore, nextShare>>

\* purge on both share repositories
BothSharePurge ==
    /\ shareStore' = SharePurgeStore(shareStore, clock)
    /\ dbShare' = DbSharePurgeRows(dbShare, clock)
    /\ last' = [op |-> "share.purge", token |-> 0,
                memory |-> Answered("None"), database |-> Answered("None")]
    /\ UNCHANGED <<clock, backendFrame, store, nextToken, dbStore, nextShare>>

\* UploadSessionService.create_session on both backends
BothSessionStore ==
    /\ nextToken <= MaxBatches
    /\ \E n \in 1..MaxImages :
         LET rec == NewRecord(nextToken, FileIds(nextToken, n), clock) IN
         /\ store' = [store EXCEPT ![nextToken] = rec]
         /\ dbStore' = [dbStore EXCEPT ![nextToken] = SessionRow(rec)]
    /\ last' = [op |-> "session.store", token |-> nextToken,
                memory |-> Answered("None"), database |-> Answered("None")]
    /\ nextToken' = nextToken + 1
    /\ UNCHANGED <<clock, backendFrame, shareStore, dbShare, nextShare>>

\* fetch on both session repositories
BothSessionFetch ==
    /\ \E t \in Tokens :
         /\ store' = FetchStore(store, t, clock)
         /\ dbStore' = DbFetchRows(dbStore, t, clock)
         /\ last' = [op |-> "session.fetch", token |-> t,
                     memory |-> FetchAnswer(FetchResult(store, t, clock)),
                     database |-> FetchAnswer(DbFetchResult(dbStore, t, clock))]
    /\ UNCHANGED <<clock, backendFrame, nextToken, shareStore, dbShare, nextShare>>

\* delete on both session repositories
BothSessionDelete ==
    /\ \E t \in Tokens :
         /\ store' = [store EXCEPT ![t] = NoRecord]
         /\ dbStore' = [dbStore EXCEPT ![t] = NoRecord]
         /\ last' = [op |-> "session.delete", token |-> t,
                     memory |-> Answered("None"), database |-> Answered("None")]
    /\ UNCHANGED <<clock, backendFrame, nextToken, shareStore, dbShare, nextShare>>

\* purge on both session repositories; the order of the returned records is
\* the dict's in one and unspecified in the other, so they are kept as a set
BothSessionPurge ==
    /\ store' = PurgeStore(store, clock)
    /\ dbStore' = DbPurgeRows(dbStore, clock)
    /\ last' = [op |-> "session.purge", token |-> 0,
                memory |-> [Answered("records") EXCEPT
                   !.purged = {store[t] : t \in ExpiredTokens(store, clock)}],
                database |-> [Answered("records") EXCEPT
                   !.purged = {SessionRecord(dbStore[t]) :
                                  t \in DbExpiredTokens(dbStore, clock)}]]
    /\ UNCHANGED <<clock, backendFrame, nextToken, shareStore, dbShare, nextShare>>

\* increment_retry on both session repositories
BothSessionIncrement ==
    /\ \E t \in Tokens :
         /\ store[t] # NoRecord => store[t].retry_count < MaxIncrements
         /\ dbStore[t] # NoRecord => dbStore[t].retry_count < MaxIncrements
         /\ store' = IF store[t] = NoRecord THEN store
                     ELSE [store EXCEPT ![t] = Incremented(store[t])]
         /\ dbStore' = IF dbStore[t] = NoRecord THEN dbStore
                       ELSE [dbStore EXCEPT ![t] = DbIncremented(dbStore[t])]
         /\ last' = [op |-> "session.increment_retry", token |-> t,
                     memory |->
                        IF store[t] = NoRecord THEN Answered("KeyError")
                        ELSE [Answered("count") EXCEPT
                                !.count = Incremented(store[t]).retry_count],
                     database |->
                        IF dbStore[t] = NoRecord THEN Answered("KeyError")
                        ELSE [Answered("count") EXCEPT
                                !.count = DbIncremented(dbStore[t]).retry_count]]
    /\ UNCHANGED <<clock, backendFrame, nextToken, shareStore, dbShare, nextShare>>

NextBackends ==
    \/ Tick
    \/ BothShareStore
    \/ BothShareFetch
    \/ BothSharePurge
    \/ BothSessionStore
    \/ BothSessionFetch
    \/ BothSessionDelete
    \/ BothSessionPurge
    \/ BothSessionIncrement

SpecBackends == InitService /\ [][NextBackends]_vars

\* The two session repositories alone
NextSessionBackends ==
    \/ Tick
    \/ BothSessionStore
    \/ BothSessionFetch
    \/ BothSessionDelete
    \/ BothSessionPurge
    \/ BothSessionIncrement

SpecSessionBackends == InitService /\ [][NextSessionBackends]_vars

----------------------------------------------------------------------------
\* ttl_seconds of a record, for every expiry and every current time

\* UploadSessionRecord.ttl_seconds: int(remaining) if remaining > 0 else 0
SessionTtlSeconds(expires_at, now) ==
    IF expires_at - now > 0 THEN expires_at - now ELSE 0

InitTtl ==
    /\ InitProgram
    /\ quick_suggestion_model
    /\ calc \in [fn : {"ShareRecord.ttl_seconds", "UploadSessionRecord.ttl_seconds"},
                 expires_at : 0..MaxTime, now : 0..MaxTime,
                 applied : {FALSE}, value : {0}]

\* record.ttl_seconds is read at time now
ReadTtlSeconds ==
    /\ ~calc.applied
    /\ calc' = [calc EXCEPT
                  !.applied = TRUE,
                  !.value = IF calc.fn = "ShareRecord.ttl_seconds"
                            THEN TtlSeconds(calc.expires_at, calc.now)
                            ELSE SessionTtlSeconds(calc.expires_at, calc.now)]
    /\ UNCHANGED <<clock, menuState, shareState, backendState>>

NextTtl == ReadTtlSeconds

SpecTtl == InitTtl /\ [][NextTtl]_vars

----------------------------------------------------------------------------
\* LLMMenuService: what an error raised inside one remote call of a public
\* operation is when it reaches the operation's caller

ErrorOps == {"upload_images", "generate_template_from_file_ids",
             "generate_quick_suggestions_from_file_ids",
             "generate_menu_template", "process_menu"}

\* The remote calls of an operation: files.create per image in
\* _upload_images, responses.create in _run_extract_request and in
\* _run_quick_suggest_request (process_menu: only when it made the task)
RemoteCalls(op, include) ==
    CASE op = "upload_images" -> {"upload"}
      [] op = "generate_template_from_file_ids" -> {"extract"}
      [] op = "generate_quick_suggestions_from_file_ids" -> {"suggest"}
      [] op = "generate_menu_template" -> {"upload", "extract"}
      [] op = "process_menu" ->
            {"upload", "extract"} \cup (IF include THEN {"suggest"} ELSE {})

\* What a remote call raises: the client's OpenAIError; after a response,
\* RuntimeError for an empty output_text, json.JSONDecodeError from json.loads
RaisedBy(call) ==
    CASE call = "upload" -> {"OpenAIError"}
      [] call = "extract" -> {"OpenAIError", "RuntimeError", "JSONDecodeError"}
      [] call = "suggest" -> {"OpenAIError", "RuntimeError"}

\* The function that made the call: _upload_images has no handler, the two
\* ..._from_file_ids have `except OpenAIError: raise RuntimeError(...)`
LeavesInner(call, exc) ==
    IF call \in {"extract", "suggest"} /\ exc = "OpenAIError"
    THEN "RuntimeError" ELSE exc

\* The operation around it: upload_images and _image_batch pass the upload's
\* error on, process_menu has `except OpenAIError` around the extraction and
\* _consume_suggestion_task answers "" for a failed task ("none": no error)
LeavesOperation(op, call, exc) ==
    IF op = "process_menu" /\ call = "suggest" THEN "none"
    ELSE IF op = "process_menu" /\ call = "extract" /\ exc = "OpenAIError"
         THEN "RuntimeError" ELSE exc

InitErrors ==
    /\ InitProgram
    /\ quick_suggestion_model
    /\ \E op \in ErrorOps, n \in 1..MaxBatchImages, inc \in BOOLEAN :
         /\ inc => op = "process_menu"
         /\ calc = [fn |-> "raise", op |-> op, n |-> n, include |-> inc,
                    pc |-> "called", call |-> "none", index |-> 0,
                    raised |-> "none", exc |-> "none"]

\* One remote call of the operation raises (the upload of image index)
RemoteCallRaises ==
    /\ calc.pc = "called"
    /\ \E call \in RemoteCalls(calc.op, calc.include), i \in 1..calc.n :
         /\ call # "upload" => i = 1
         /\ \E exc \in RaisedBy(call) :
              calc' = [calc EXCEPT !.pc = "raised", !.call = call,
                          !.index = IF call = "upload" THEN i ELSE 0,
                          !.raised = exc, !.exc = exc]
    /\ UNCHANGED <<clock, menuState, shareState, backendState>>

\* The error leaves the function that made the call
ErrorLeavesInner ==
    /\ calc.pc = "raised"
    /\ calc' = [calc EXCEPT !.pc = "inner", !.exc = LeavesInner(calc.call, calc.exc)]
    /\ UNCHANGED <<clock, menuState, shareState, backendState>>

\* The operation ends: calc.exc is what its caller gets
ErrorReachesCaller ==
    /\ calc.pc = "inner"
    /\ calc' = [calc EXCEPT !.pc = "caller",
                   !.exc = LeavesOperation(calc.op, calc.call, calc.exc)]
    /\ UNCHANGED <<clock, menuState, shareState, backendState>>

NextErrors == RemoteCallRaises \/ ErrorLeavesInner \/ ErrorReachesCaller

SpecErrors == InitErrors /\ [][NextErrors]_vars

----------------------------------------------------------------------------
\* _build_menu_template: the parsed payload of the model becomes a template

MaxItems == 2

\* A price of the payload: null, a string, an int, or a float given in
\* thousandths (n = 9500 is 9.5)
PriceValue(type, n, text) == [type |-> type, n |-> n, text |-> text]

MaxPriceUnits == 3

\* The floats leave out the thousandths ending in 5, where the rounding of
\* the binary value decides the second decimal
PriceValues ==
    {PriceValue("null", 0, "")}
    \cup {PriceValue("str", 0, s) : s \in {"", "N/A", "12"}}
    \cup {PriceValue("int", n, "") : n \in 0..MaxPriceUnits}
    \cup {PriceValue("float", k, "") :
            k \in {m \in 0..(1000 * MaxPriceUnits) : m % 10 # 5}}

FormatPriceOnePlace(value) ==
    CASE value.type = "null" \/ (value.type = "str" /\ value.text = "") ->
            [form |-> "None", whole |-> 0, decimals |-> <<>>, text |-> ""]
      [] value.type = "int" ->
            [form |-> "number", whole |-> value.n, decimals |-> <<>>, text |-> ""]
      [] value.type = "float" /\ value.n % 1000 = 0 ->
            [form |-> "number", whole |-> value.n \div 1000, decimals |-> <<>>,
             text |-> ""]
      [] value.type = "float" /\ value.n % 1000 # 0 ->
            LET tenths == (value.n + 50) \div 100 IN
            [form |-> "number", whole |-> tenths \div 10,
             decimals |-> <<tenths % 10>>, text |-> ""]
      [] OTHER ->
            [form |-> "text", whole |-> 0, decimals |-> <<>>, text |-> value.text]

\* _format_price: None, f"{int(value)}", f"{value:.2f}" or str(value); a
\* number string is its whole part and the digits after the point
FormatPrice(value) ==
    CASE value.type = "null" \/ (value.type = "str" /\ value.text = "") ->
            [form |-> "None", whole |-> 0, decimals |-> <<>>, text |-> ""]
      [] value.type = "int" ->
            [form |-> "number", whole |-> value.n, decimals |-> <<>>, text |-> ""]
      [] value.type = "float" /\ value.n % 1000 = 0 ->
            [form |-> "number", whole |-> value.n \div 1000, decimals |-> <<>>,
             text |-> ""]
      [] value.type = "float" /\ value.n % 1000 # 0 ->
            LET hundredths == (value.n + 5) \div 10 IN
            [form |-> "number", whole |-> hundredths \div 100,
             decimals |-> <<(hundredths \div 10) % 10, hundredths % 10>>,
             text |-> ""]
      [] OTHER ->
            [form |-> "text", whole |-> 0, decimals |-> <<>>, text |-> value.text]

\* str.strip on the strings of the model
Strip(s) ==
    CASE s = " " -> ""
      [] s = " Pho " -> "Pho"
      [] OTHER -> s

\* An element of payload["items"]: something that is not a dict, or a dict
\* whose values are read with item.get ("None": the key is absent or null)
PayloadItems ==
    [isDict : {TRUE}, section : {"None", "Soups"},
     original_name : {"None", " ", " Pho "},
     translated_name : {"", "Noodle soup"},
     description : {"None", "Rice noodles"},
     price : {PriceValue("null", 0, ""), PriceValue("int", 1, "")}]
    \cup {[isDict |-> FALSE, section |-> "None", original_name |-> "None",
           translated_name |-> "", description |-> "None",
           price |-> PriceValue("null", 0, "")]}

\* json.loads of the output text: not a dict, a dict without "items", or a
\* dict whose "items" is a list
Payloads ==
    {[isDict |-> d, hasItems |-> h, items |-> <<>>] :
        d \in BOOLEAN, h \in {FALSE}}
    \cup {[isDict |-> TRUE, hasItems |-> TRUE, items |-> items] :
            items \in UNION {[1..n -> PayloadItems] : n \in 0..MaxItems}}

\* str(item.get(key) or default)
StrOr(value, default) == IF value \in {"None", ""} THEN default ELSE value

IsCompleteUntrimmed(item) ==
    /\ item.isDict
    /\ StrOr(item.original_name, "") # ""
    /\ StrOr(item.translated_name, "") # ""
    /\ StrOr(item.description, "") # ""

IsCompleteLoose(item) ==
    item.isDict /\ Strip(StrOr(item.original_name, "")) # ""

\* `if not original_name or not translated_name or not description: continue`
\* and `if not isinstance(item, dict): continue`, negated
IsComplete(item) ==
    /\ item.isDict
    /\ Strip(StrOr(item.original_name, "")) # ""
    /\ Strip(StrOr(item.translated_name, "")) # ""
    /\ Strip(StrOr(item.description, "")) # ""

AppendDishNewFirst(sections, item) ==
    LET title == StrOr(item.section, "Menu")
        dish == [original_name |-> Strip(StrOr(item.original_name, "")),
                 translated_name |-> Strip(StrOr(item.translated_name, "")),
                 description |-> Strip(StrOr(item.description, "")),
                 price |-> FormatPrice(item.price)]
    IN IF \E i \in DOMAIN sections : sections[i].title = title
       THEN [i \in DOMAIN sections |->
               IF sections[i].title = title
               THEN [sections[i] EXCEPT !.dishes = <<dish>> \o @]
               ELSE sections[i]]
       ELSE <<[title |-> title, dishes |-> <<dish>>]>> \o sections

\* The mutant opens a section for every dish
AppendDishOwnSection(sections, item) ==
    Append(sections,
           [title |-> StrOr(item.section, "Menu"),
            dishes |-> <<[original_name |-> Strip(StrOr(item.original_name, "")),
                          translated_name |-> Strip(StrOr(item.translated_name, "")),
                          description |-> Strip(StrOr(item.description, "")),
                          price |-> FormatPrice(item.price)]>>])

\* sections[section].append(MenuDish(...)) on the insertion-ordered dict
AppendDish(sections, item) ==
    LET title == StrOr(item.section, "Menu")
        dish == [original_name |-> Strip(StrOr(item.original_name, "")),
                 translated_name |-> Strip(StrOr(item.translated_name, "")),
                 description |-> Strip(StrOr(item.description, "")),
                 price |-> FormatPrice(item.price)]
    IN IF \E i \in DOMAIN sections : sections[i].title = title
       THEN [i \in DOMAIN sections |->
               IF sections[i].title = title
               THEN [sections[i] EXCEPT !.dishes = Append(@, dish)]
               ELSE sections[i]]
       ELSE Append(sections, [title |-> title, dishes |-> <<dish>>])

\* The loop over payload["items"], from the sections built so far
RECURSIVE BuildSections(_, _)
BuildSections(sections, items) ==
    IF items = <<>> THEN sections
    ELSE BuildSections(IF IsComplete(Head(items))
                       THEN AppendDish(sections, Head(items))
                       ELSE sections,
                       Tail(items))

BuildMenuTemplate(payload) ==
    IF ~payload.isDict \/ ~payload.hasItems
    THEN [kind |-> "RuntimeError", sections |-> <<>>]
    ELSE [kind |-> "MenuTemplate", sections |-> BuildSections(<<>>, payload.items)]

InitBuild ==
    /\ InitProgram
    /\ quick_suggestion_model
    /\ calc \in [fn : {"_build_menu_template"}, payload : Payloads,
                 applied : {FALSE},
                 result : {[kind |-> "none", sections |-> <<>>]}]

\* _build_menu_template(payload) returns or raises
ApplyBuild ==
    /\ ~calc.applied
    /\ calc' = [calc EXCEPT !.applied = TRUE,
                            !.result = BuildMenuTemplate(calc.payload)]
    /\ UNCHANGED <<clock, menuState, shareState, backendState>>

NextBuild == ApplyBuild

SpecBuild == InitBuild /\ [][NextBuild]_vars

InitPrice ==
    /\ InitProgram
    /\ quick_suggestion_model
    /\ calc \in [fn : {"_format_price"}, value : PriceValues, applied : {FALSE},
                 result : {[form |-> "none", whole |-> 0, decimals |-> <<>>,
                            text |-> ""]}]

\* _format_price(item.get("price")) returns
ApplyPrice ==
    /\ ~calc.applied
    /\ calc' = [calc EXCEPT !.applied = TRUE, !.result = FormatPrice(calc.value)]
    /\ UNCHANGED <<clock, menuState, shareState, backendState>>

SpecPrice == InitPrice /\ [][ApplyPrice]_vars

----------------------------------------------------------------------------
\* generate_template_from_file_ids: what the one responses.create call gives
\* decides what the caller gets

\* responses.create raises OpenAIError, or returns a response whose
\* output_text is missing, empty, not JSON, or JSON that json.loads parses
Responses ==
    {[kind |-> k, payload |-> [isDict |-> FALSE, hasItems |-> FALSE, items |-> <<>>]] :
        k \in {"OpenAIError", "no_output_text", "empty_output_text", "not_json"}}
    \cup {[kind |-> "json", payload |-> p] : p \in Payloads}

\* The template returned or the error raised, with its message
GenerateTemplate(response) ==
    CASE response.kind = "OpenAIError" ->
            [kind |-> "RuntimeError", message |-> "Failed to call OpenAI API",
             sections |-> <<>>]
      [] response.kind = "no_output_text" ->
            [kind |-> "RuntimeError", message |-> "OpenAI response missing output_text",
             sections |-> <<>>]
      [] response.kind = "empty_output_text" ->
            [kind |-> "RuntimeError",
             message |-> "OpenAI response returned empty output_text",
             sections |-> <<>>]
      [] response.kind = "not_json" ->
            [kind |-> "JSONDecodeError", message |-> "Expecting value",
             sections |-> <<>>]
      [] response.kind = "json" ->
            LET built == BuildMenuTemplate(response.payload) IN
            [kind |-> built.kind,
             message |-> IF built.kind = "RuntimeError"
                         THEN "OpenAI response missing 'items' payload" ELSE "",
             sections |-> built.sections]

InitGenerate ==
    /\ InitProgram
    /\ quick_suggestion_model
    /\ calc \in [fn : {"generate_template_from_file_ids"}, response : Responses,
                 applied : {FALSE},
                 result : {[kind |-> "none", message |-> "", sections |-> <<>>]}]

\* generate_template_from_file_ids returns or raises
ApplyGenerate ==
    /\ ~calc.applied
    /\ calc' = [calc EXCEPT !.applied = TRUE,
                            !.result = GenerateTemplate(calc.response)]
    /\ UNCHANGED <<clock, menuState, shareState, backendState>>

SpecGenerate == InitGenerate /\ [][ApplyGenerate]_vars

----------------------------------------------------------------------------
\* LLMMenuService.delete_files: one _delete coroutine per file id, gathered

MaxDeleteIds == 3

\* asyncio.gather(*coroutines): raises the first exception of a coroutine
\* to its caller as soon as it happens
GatheredFailFast(status) ==
    LET failed == {i \in DOMAIN status : status[i] = "RuntimeError"} IN
    [done |-> failed # {} \/ \A i \in DOMAIN status : status[i] # "pending",
     raised |-> IF failed # {} THEN "RuntimeError" ELSE "none"]

\* asyncio.gather(*coroutines, return_exceptions=True): waits for every
\* coroutine and hands their exceptions back as results
Gathered(status) ==
    [done |-> \A i \in DOMAIN status : status[i] # "pending",
     raised |-> "none"]

InitDeleteFiles ==
    /\ InitProgram
    /\ quick_suggestion_model
    /\ \E n \in 0..MaxDeleteIds :
         calc = [fn |-> "delete_files", status |-> [i \in 1..n |-> "pending"],
                 attempted |-> {}, pc |-> "gather", result |-> "none"]

\* _delete(file_id): client.files.delete returns, or raises an OpenAIError
\* that `except OpenAIError: pass` swallows, or the coroutine ends with
\* another error (RuntimeError of the client property without an API key)
DeletionEnds ==
    /\ calc.pc = "gather"
    /\ \E i \in DOMAIN calc.status, outcome \in {"deleted", "OpenAIError", "RuntimeError"} :
         /\ calc.status[i] = "pending"
         /\ calc' = [calc EXCEPT
                        !.status[i] = IF outcome = "OpenAIError" THEN "swallowed"
                                      ELSE outcome,
                        !.attempted = @ \cup {i}]
    /\ UNCHANGED <<clock, menuState, shareState, backendState>>

\* `if not file_ids: return`, or the gather is over
DeleteFilesReturns ==
    /\ calc.pc = "gather"
    /\ Gathered(calc.status).done
    /\ calc' = [calc EXCEPT !.pc = "returned",
                            !.result = Gathered(calc.status).raised]
    /\ UNCHANGED <<clock, menuState, shareState, backendState>>

NextDeleteFiles == DeletionEnds \/ DeleteFilesReturns

SpecDeleteFiles == InitDeleteFiles /\ [][NextDeleteFiles]_vars

----------------------------------------------------------------------------
\* Claims

\* C1: every session record that has left the store, by the delete-session
\* request, by the purge sweep or by the lazy eviction of describe, has had
\* deletion requested for each file handle recorded in it.
C1_RemovedRecordReleased ==
    \A t \in Tokens :
        (Created(t) /\ store[t] = NoRecord)
            => Range(sessionFiles[t]) \subseteq deleteRequested

\* C2: a retry request made after 5 retry requests on the session were
\* answered 200, with the session live throughout, is answered 429, has
\* issued no upload and no inference call, and the record still holds the
\* file handles it was created with.
C2_SixthRetryRejected ==
    \A r \in Requests :
        (/\ req[r].kind = "retry"
         /\ req[r].pc = "done"
         /\ req[r].okBefore = MAX_SESSION_RETRIES
         /\ req[r].result # "404")
            => /\ req[r].result = "429"
               /\ req[r].uploadCalls = 0
               /\ req[r].extractCalls = 0
               /\ req[r].suggCalls = 0
               /\ store[req[r].token] # NoRecord
               /\ store[req[r].token].file_ids = sessionFiles[req[r].token]

\* The sixth retry has been answered 429 after exactly five that succeeded
C2_Witness ==
    \E r \in Requests :
        /\ req[r].kind = "retry" /\ req[r].pc = "done"
        /\ req[r].okBefore = MAX_SESSION_RETRIES
        /\ req[r].result = "429"
        /\ req[r].retry_count = MAX_SESSION_RETRIES + 1

\* C3: the values increment_retry has returned for a token are 1, 2, ..., n
\* with no value returned twice, the stored retry_count is n, and two calls
\* in flight together on one token got different counts.
C3_IncrementRetryAtomic ==
    /\ \A t \in Tokens :
         /\ returned[t] = [i \in 1..Len(returned[t]) |-> i]
         /\ store[t] # NoRecord => store[t].retry_count = Len(returned[t])
    /\ \A c, d \in Callers :
         (/\ c # d
          /\ calls[c].pc = "returned" /\ calls[d].pc = "returned"
          /\ calls[c].op = "increment_retry" /\ calls[d].op = "increment_retry"
          /\ calls[c].token = calls[d].token
          /\ calls[c].result = "count" /\ calls[d].result = "count")
             => calls[c].count # calls[d].count

\* Two calls that were pending together have returned 2 and 3
C3_Witness ==
    \E c, d \in Callers :
        /\ calls[c].pc = "returned" /\ calls[d].pc = "returned"
        /\ calls[c].op = "increment_retry" /\ calls[d].op = "increment_retry"
        /\ calls[c].token = calls[d].token
        /\ calls[c].raced
        /\ calls[c].count = 2 /\ calls[d].count = 3

\* C4: increment_retry on a token whose record has expired raises KeyError,
\* also while the expired record is still in the store.
C4_ExpiredIncrementFails ==
    \A c \in Callers :
        (/\ calls[c].pc = "returned"
         /\ calls[c].op = "increment_retry"
         /\ calls[c].expired)
            => calls[c].result = "KeyError"

\* C5: a process or retry request whose extraction timed out is answered
\* 504, and cancel was called on the suggestion task if one was launched.
C5_TimeoutAnswers504 ==
    \A r \in Requests :
        (req[r].pc = "done" /\ req[r].extraction = "timeout")
            => /\ req[r].result = "504"
               /\ req[r].sugg # "none" => req[r].cancelCalled
               /\ req[r].sugg # "running"

\* C6: once an orchestration has left with a failed primary extraction, in
\* the route helper or in LLMMenuService.process_menu, its suggestion task
\* is not running any more.
C6_SuggestionDrainedOnFailure ==
    /\ \A r \in Requests :
         (req[r].pc = "done" /\ req[r].extraction \in {"failed", "timeout"})
             => req[r].sugg # "running"
    /\ (/\ svc.op = "process_menu"
        /\ svc.pc \in {"exited", "done"}
        /\ svc.extraction = "failed")
           => svc.sugg # "running"

\* C7: when the extraction succeeded, a suggestion task that raised, timed
\* out or was cancelled does not fail the generation: it returns, with
\* quick_suggestion "" (a 500 is then create_session's failure).
C7_SuggestionNeverFailsRequest ==
    \A r \in Requests :
        (/\ req[r].pc \in {"create_session", "done"}
         /\ req[r].extraction = "ok"
         /\ req[r].sugg \in {"failed", "cancelled"})
            => /\ req[r].result \in {"none", "200", "500"}
               /\ req[r].quick_suggestion = ""

\* C8: when a process request whose uploads succeeded has ended, each
\* uploaded file handle is recorded in a stored session or has had deletion
\* requested.
C8_ProcessHandlesOwnedOrReleased ==
    \A r \in Requests :
        (req[r].kind = "process" /\ req[r].pc = "done")
            => \A f \in Range(req[r].file_ids) :
                 \/ f \in deleteRequested
                 \/ \E t \in Tokens :
                      store[t] # NoRecord /\ f \in Range(store[t].file_ids)

\* C9: an operation that uploaded through _image_batch has requested
\* deletion of every uploaded handle once it is over, however its body was
\* left, and requests it for no handle of the batch before the body is left.
C9_ImageBatchReleases ==
    /\ svc.pc = "done" => Range(svc.file_ids) \subseteq released
    /\ svc.pc \in {"uploading", "body", "consume", "exited"}
          => \A i \in 1..MaxBatchImages : <<svc.batch, i>> \notin released

\* The body was left by cancellation and the batch has been released
C9_Witness ==
    /\ svc.pc = "done"
    /\ svc.exit = "cancelled"
    /\ Len(svc.file_ids) = MaxBatchImages
    /\ Range(svc.file_ids) \subseteq released

\* C10: when an upload of a batch has failed, upload_images has failed as a
\* whole and deletion was requested for every handle the other uploads of
\* the batch obtained.
C10_FailedBatchReleased ==
    svc.result = "UploadError"
        => /\ svc.file_ids = <<>>
           /\ \A i \in DOMAIN svc.uploads :
                svc.uploads[i] = "ok" => <<svc.batch, i>> \in released

\* C11: once a process request whose uploads all succeeded has ended, a
\* session holding the returned file handles has been created in the store,
\* whether the generation that followed succeeded or not.
C11_SessionCreatedAfterUpload ==
    \A r \in Requests :
        (/\ req[r].kind = "process"
         /\ req[r].pc = "done"
         /\ req[r].file_ids # <<>>)
            => sessionFiles[req[r].token] = req[r].file_ids

\* C12: a read of the share store or of the session store (describe, fetch,
\* fetch_template) answers None or a record and nothing else; it answers
\* None for a token whose TTL has elapsed, purged or not, and for a token
\* that was never issued.
C12_ExpiredReadReturnsNone ==
    /\ \A s \in ShareSlots :
         (shareReq[s].pc = "done" /\ shareReq[s].kind \in {"describe", "fetch_template"})
            => /\ shareReq[s].result \in {"None", "record"}
               /\ (shareReq[s].isExpired \/ ~shareReq[s].wasIssued)
                     => shareReq[s].result = "None"
    /\ \A c \in Callers :
         (calls[c].pc = "returned" /\ calls[c].op = "describe")
            => /\ calls[c].result \in {"None", "record"}
               /\ (calls[c].expired \/ ~Created(calls[c].token))
                     => calls[c].result = "None"

\* C13: a share link made by create_share_link from a template carries a
\* positive remaining-seconds value while its TTL has not elapsed, and
\* get_shared_menu answers with that template until the TTL has elapsed and
\* with 404 from then on, whatever other share requests ran in between.
C13_ShareRoundTrip ==
    \A s \in ShareSlots :
        LET q == shareReq[s] IN
        /\ (q.pc = "done" /\ q.kind = "create_share_link" /\ q.result = "200"
              /\ clock < q.expires_at)
             => /\ q.ttl_seconds > 0
                /\ q.template = shareIssued[q.token].template
                /\ q.expires_at = shareIssued[q.token].expires_at
        /\ (q.pc = "done" /\ q.kind = "get_shared_menu" /\ q.wasIssued)
             => IF q.isExpired
                THEN q.result = "404"
                ELSE /\ q.result = "200"
                     /\ q.template = shareIssued[q.token].template

\* C14: after every sequence of store, fetch, delete, purge and
\* increment_retry calls made of both backends at the same clock values, the
\* in-memory and the relational repository have given the same answer to the
\* last call and hold the same live tokens, for shares and for sessions.
C14_BackendsEquivalent ==
    /\ last.memory = last.database
    /\ {t \in ShareTokens : shareStore[t] # NoRecord}
          = {t \in ShareTokens : dbShare[t] # NoRecord}
    /\ {t \in Tokens : store[t] # NoRecord} = {t \in Tokens : dbStore[t] # NoRecord}

\* C15: ttl_seconds of a share or session record read at any time, for any
\* expiry, is never negative: it is the number of whole seconds from now to
\* expires_at when expires_at is later than now, and 0 otherwise.
C15_TtlSecondsClamped ==
    calc.applied
        => /\ calc.value >= 0
           /\ calc.expires_at > calc.now
                 => /\ calc.value <= calc.expires_at - calc.now
                    /\ calc.expires_at - calc.now < calc.value + 1
           /\ calc.expires_at <= calc.now => calc.value = 0

\* ttl_seconds of a share record was read after its expiry and is 0
C15_Witness ==
    /\ calc.applied
    /\ calc.fn = "ShareRecord.ttl_seconds"
    /\ calc.expires_at < calc.now
    /\ calc.value = 0

\* C16: a retry or session-based suggest request makes no upload call, a
\* retry answered 200 returns the session id it was given, and once no retry
\* is in progress the stored retry_count is the number of retries answered
\* 200.
C16_ReuseCountsSuccesses ==
    /\ \A r \in Requests :
         /\ req[r].kind \in {"retry", "suggest"} => req[r].uploadCalls = 0
         /\ (req[r].kind = "retry" /\ req[r].pc = "done" /\ req[r].result = "200")
               => req[r].session_id = req[r].token
    /\ \A t \in Tokens :
         (/\ store[t] # NoRecord
          /\ \A r \in Requests :
               (req[r].kind = "retry" /\ req[r].token = t) => req[r].pc = "done")
            => store[t].retry_count = okRetries[t]

\* C16, amended: a retry or session-based suggest request makes no upload
\* call, a retry answered 200 returns the session id it was given, and the
\* stored retry_count is the number of retry requests that have called
\* increment_retry, which is at least the number of retries answered 200.
C16_ReuseCountsAttempts ==
    /\ \A r \in Requests :
         /\ req[r].kind \in {"retry", "suggest"} => req[r].uploadCalls = 0
         /\ (req[r].kind = "retry" /\ req[r].pc = "done" /\ req[r].result = "200")
               => req[r].session_id = req[r].token
    /\ \A t \in Tokens :
         store[t] # NoRecord
            => /\ store[t].retry_count = Len(returned[t])
               /\ okRetries[t] <= store[t].retry_count

\* A retry has been answered 200 with its session id after another retry of
\* the session failed
C16_Witness ==
    \E r \in Requests, t \in Tokens :
        /\ req[r].kind = "retry" /\ req[r].pc = "done" /\ req[r].result = "200"
        /\ req[r].token = t /\ req[r].session_id = t
        /\ store[t] # NoRecord
        /\ okRetries[t] = 1
        /\ store[t].retry_count = 2

\* C17: a retry request that started after a retry of its session was
\* answered 429 is answered 429 itself, or 404 when the session is gone, and
\* never 200; a retry is answered 404 only when the session's record is
\* gone, and a record leaves the store only when it has expired or a
\* delete-session request removes it.
C17_RetryLimitTerminal ==
    /\ [](\A r \in Requests :
            (req[r].kind = "retry" /\ req[r].pc = "done")
               => /\ req[r].limitedBefore => req[r].result \in {"429", "404"}
                  /\ req[r].result = "404" => store[req[r].token] = NoRecord)
    /\ [][\A t \in Tokens :
            (store[t] # NoRecord /\ store'[t] = NoRecord)
               => \/ IsExpired(store[t], clock)
                  \/ \E r \in Requests :
                       /\ req[r].kind = "delete" /\ req[r].token = t
                       /\ req[r].pc = "delete_record"]_vars

\* A retry made after the session's first 429 has been answered 429 too,
\* with the session still stored
C17_Witness ==
    \E r \in Requests :
        /\ req[r].kind = "retry" /\ req[r].pc = "done"
        /\ req[r].limitedBefore
        /\ req[r].result = "429"
        /\ req[r].retry_count = MAX_SESSION_RETRIES + 2
        /\ store[req[r].token] # NoRecord

C19_NoRawErrorEscapes ==
    (calc.fn = "raise" /\ calc.pc = "caller" /\ calc.raised = "OpenAIError")
        => (calc.exc # "OpenAIError" /\ calc.exc \in {"RuntimeError", "none"})

\* C20 (as claimed): a payload without the top-level items, or with an item
\* that lacks a required field, makes _build_menu_template fail with the
\* malformed-response RuntimeError, and no template with zero sections is
\* returned for it
C20_MalformedNeverEmpty ==
    (calc.fn = "_build_menu_template" /\ calc.applied)
        => LET p == calc.payload
               lacking == \E i \in DOMAIN p.items :
                             \/ ~p.items[i].isDict
                             \/ p.items[i].original_name # " Pho "
                             \/ p.items[i].translated_name # "Noodle soup"
                             \/ p.items[i].description # "Rice noodles"
           IN (~p.isDict \/ ~p.hasItems \/ lacking)
                 => /\ calc.result.kind = "RuntimeError"
                    /\ ~(calc.result.kind = "MenuTemplate"
                         /\ calc.result.sections = <<>>)

\* C20 (amended): a payload that is not an object or has no top-level items
\* fails with RuntimeError and yields no template; a payload with an items
\* list never fails: items lacking a required field are dropped, every
\* complete item becomes one dish, and the template has zero sections
\* exactly when no item is complete
C20_OnlyMissingItemsFails ==
    (calc.fn = "_build_menu_template" /\ calc.applied)
        => LET p == calc.payload
               complete == {i \in DOMAIN p.items :
                              /\ p.items[i].isDict
                              /\ p.items[i].original_name = " Pho "
                              /\ p.items[i].translated_name = "Noodle soup"
                              /\ p.items[i].description = "Rice noodles"}
               dishes == {<<s, d>> \in (DOMAIN calc.result.sections) \X (1..(MaxItems + 1)) :
                              d \in DOMAIN calc.result.sections[s].dishes}
           IN IF ~p.isDict \/ ~p.hasItems
              THEN calc.result.kind = "RuntimeError"
              ELSE /\ calc.result.kind = "MenuTemplate"
                   /\ Cardinality(dishes) = Cardinality(complete)
                   /\ (calc.result.sections = <<>>) <=> (complete = {})

\* an applied payload whose items all lack a required field: an empty
\* template came back
C20_Witness ==
    /\ calc.fn = "_build_menu_template" /\ calc.applied
    /\ calc.payload.hasItems
    /\ Len(calc.payload.items) = MaxItems
    /\ \A i \in DOMAIN calc.payload.items :
          /\ calc.payload.items[i].isDict
          /\ calc.payload.items[i].original_name = " Pho "
          /\ calc.payload.items[i].description = "None"
    /\ calc.result.kind = "MenuTemplate"
    /\ calc.result.sections = <<>>

\* C21: the error raised for a malformed response (text that is not JSON,
\* or JSON that is not an object with a top-level items) is of another kind
\* than the error raised when the call to the model host failed
C21_MalformedKindDistinct ==
    (calc.fn = "generate_template_from_file_ids" /\ calc.applied
       /\ \/ calc.response.kind = "not_json"
          \/ /\ calc.response.kind = "json"
             /\ (~calc.response.payload.isDict \/ ~calc.response.payload.hasItems))
        => /\ calc.result.kind \notin {"MenuTemplate", "none"}
           /\ calc.result.kind #
                GenerateTemplate([calc.response EXCEPT !.kind = "OpenAIError"]).kind

\* C22: delete_files never raises: whichever deletions fail, it returns
\* normally, and by then a deletion was attempted for every id of the list
C22_DeleteFilesNeverRaises ==
    (calc.fn = "delete_files" /\ calc.pc = "returned")
        => /\ calc.result = "none"
           /\ calc.attempted = DOMAIN calc.status

\* delete_files returned after one deletion failed with an OpenAIError and
\* another with a different error, a third having succeeded
C22_Witness ==
    /\ calc.fn = "delete_files" /\ calc.pc = "returned"
    /\ \E i, j, k \in DOMAIN calc.status :
          /\ calc.status[i] = "swallowed"
          /\ calc.status[j] = "RuntimeError"
          /\ calc.status[k] = "deleted"

\* C23: a process request with no file, a file of an unsupported type or an
\* empty file is answered 400 with no upload call, no inference call and no
\* session created, and the step that rejects it leaves the session store,
\* the tokens handed out and the remote deletions requested as they were
C23_InvalidRejectedWithoutEffect ==
    /\ [](\A r \in Requests :
            (req[r].kind = "process" /\ req[r].result = "400")
               => /\ req[r].uploadCalls = 0
                  /\ req[r].extractCalls = 0
                  /\ req[r].suggCalls = 0
                  /\ req[r].session_id = 0
                  /\ req[r].file_ids = <<>>)
    /\ [][\A r \in Requests :
            (req[r].pc = "idle" /\ req'[r].kind = "process" /\ req'[r].result = "400")
               => /\ store' = store
                  /\ nextToken' = nextToken
                  /\ sessionFiles' = sessionFiles
                  /\ deleteRequested' = deleteRequested]_vars

\* an invalid process request has been rejected while the store held an
\* expired session, which a purge would have removed
C23_Witness ==
    /\ req["r1"].kind = "process" /\ req["r1"].result = "400"
    /\ \E t \in Tokens : store[t] # NoRecord /\ IsExpired(store[t], clock)

\* C24: the template's sections are distinct and stand in the order in
\* which their labels first occur among the kept items of the input, and
\* the dishes of a section are the kept items with that label, in input
\* order (the items of the model differ in their price)
C24_OrderPreserved ==
    (calc.fn = "_build_menu_template" /\ calc.applied /\ calc.payload.hasItems)
        => LET items == calc.payload.items
               sections == calc.result.sections
               Label(item) == IF item.section = "None" THEN "Menu" ELSE item.section
               Kept(item) == /\ item.isDict
                             /\ item.original_name = " Pho "
                             /\ item.translated_name = "Noodle soup"
                             /\ item.description = "Rice noodles"
               Has(i, label) == Kept(items[i]) /\ Label(items[i]) = label
           IN /\ \A a, b \in DOMAIN sections :
                    a < b => /\ sections[a].title # sections[b].title
                             /\ \E i \in DOMAIN items :
                                   /\ Has(i, sections[a].title)
                                   /\ \A j \in DOMAIN items :
                                         Has(j, sections[b].title) => i < j
              /\ \A a \in DOMAIN sections :
                    LET members == SelectSeq(items,
                                      LAMBDA item : Kept(item)
                                                    /\ Label(item) = sections[a].title)
                    IN /\ Len(sections[a].dishes) = Len(members)
                       /\ \A k \in DOMAIN sections[a].dishes :
                             (sections[a].dishes[k].price.form = "None")
                                = (members[k].price.type = "null")

\* two kept items with the labels "Soups" then "Menu": the template lists
\* "Soups" first, which no alphabetical order would
C24_Witness ==
    /\ calc.fn = "_build_menu_template" /\ calc.applied
    /\ Len(calc.payload.items) = 2
    /\ Len(calc.result.sections) = 2
    /\ calc.result.sections[1].title = "Soups"
    /\ calc.result.sections[2].title = "Menu"

\* C25: the dishes of the template are exactly the input items that are
\* objects whose original_name, translated_name and description are all
\* non-empty after trimming, one dish per such item with the trimmed values;
\* a payload with items never raises, whatever its other items lack
C25_ExactlyCompleteItemsKept ==
    (calc.fn = "_build_menu_template" /\ calc.applied /\ calc.payload.hasItems)
        => LET items == calc.payload.items
               sections == calc.result.sections
               Label(item) == IF item.section = "None" THEN "Menu" ELSE item.section
               Kept(item) == /\ item.isDict
                             /\ item.original_name = " Pho "
                             /\ item.translated_name = "Noodle soup"
                             /\ item.description = "Rice noodles"
               dishes == {<<a, k>> \in (DOMAIN sections) \X (1..(MaxItems + 1)) :
                             k \in DOMAIN sections[a].dishes}
           IN /\ calc.result.kind = "MenuTemplate"
              /\ Cardinality(dishes) = Cardinality({i \in DOMAIN items : Kept(items[i])})
              /\ \A i \in DOMAIN items :
                    Kept(items[i]) =>
                       \E a \in DOMAIN sections :
                          /\ sections[a].title = Label(items[i])
                          /\ \E k \in DOMAIN sections[a].dishes :
                                (sections[a].dishes[k].price.form = "None")
                                   = (items[i].price.type = "null")
              /\ \A a \in DOMAIN sections : \A k \in DOMAIN sections[a].dishes :
                    /\ sections[a].dishes[k].original_name = "Pho"
                    /\ sections[a].dishes[k].translated_name = "Noodle soup"
                    /\ sections[a].dishes[k].description = "Rice noodles"

\* a kept item after an item whose original_name is blank: one dish came
\* back, the kept one
C25_Witness ==
    /\ calc.fn = "_build_menu_template" /\ calc.applied
    /\ Len(calc.payload.items) = 2
    /\ calc.payload.items[1].isDict
    /\ calc.payload.items[1].original_name = " "
    /\ calc.payload.items[1].translated_name = "Noodle soup"
    /\ calc.payload.items[1].description = "Rice noodles"
    /\ calc.result.kind = "MenuTemplate"
    /\ Len(calc.result.sections) = 1
    /\ Len(calc.result.sections[1].dishes) = 1

\* C26: a null or empty-string price becomes absent; an int, or a float
\* with an integer value, becomes its integer with no decimal point; any
\* other float becomes its value rounded to exactly two decimals; any other
\* string stays as it is
C26_PriceNormalized ==
    (calc.fn = "_format_price" /\ calc.applied)
        => LET v == calc.value
               out == calc.result
           IN CASE v.type = "null" -> out.form = "None"
                [] v.type = "str" ->
                      IF v.text = "" THEN out.form = "None"
                      ELSE out.form = "text" /\ out.text = v.text
                [] v.type = "int" ->
                      out.form = "number" /\ out.whole = v.n /\ out.decimals = <<>>
                [] v.type = "float" ->
                      IF \E w \in 0..MaxPriceUnits : v.n = 1000 * w
                      THEN /\ out.form = "number" /\ out.decimals = <<>>
                           /\ 1000 * out.whole = v.n
                      ELSE /\ out.form = "number" /\ Len(out.decimals) = 2
                           /\ \A i \in 1..2 : out.decimals[i] \in 0..9
                           /\ LET shown == 1000 * out.whole + 100 * out.decimals[1]
                                              + 10 * out.decimals[2]
                              IN shown - v.n \in -4..4

\* the float 2.5 has been formatted: "2.50"
C26_Witness ==
    /\ calc.fn = "_format_price" /\ calc.applied
    /\ calc.value.type = "float" /\ calc.value.n = 2500
    /\ calc.result.whole = 2 /\ calc.result.decimals = <<5, 0>>

\* C27: within one operation of the pipeline a generation call (the
\* extraction, the suggestion task) has been issued only if every upload of
\* the batch returned its id, and none is ever issued once an upload failed
C27_GenerationAfterUploads ==
    LET issued == \/ svc.pc \in {"body", "consume"}
                  \/ svc.sugg # "none"
                  \/ svc.extraction # "none"
    IN /\ issued => \A i \in DOMAIN svc.uploads : svc.uploads[i] = "ok"
       /\ (\E i \in DOMAIN svc.uploads : svc.uploads[i] = "failed") => ~issued

\* process_menu awaits the extraction beside its suggestion task, after a
\* batch of MaxBatchImages uploads
C27_Witness ==
    /\ svc.op = "process_menu" /\ svc.pc = "body" /\ svc.sugg = "running"
    /\ Len(svc.uploads) = MaxBatchImages
    /\ \A i \in DOMAIN svc.uploads : svc.uploads[i] = "ok"

\* C28: one process or retry request makes at most one upload call (none
\* for a retry), at most one extraction call and at most one suggestion
\* call, and a request whose extraction failed or timed out has made exactly
\* one extraction call when it is answered
C28_NoInternalRetry ==
    \A r \in Requests :
       req[r].kind \in {"process", "retry"}
          => /\ req[r].uploadCalls <= 1
             /\ req[r].extractCalls <= 1
             /\ req[r].suggCalls <= 1
             /\ (req[r].pc = "done" /\ req[r].extraction \in {"failed", "timeout"})
                   => /\ req[r].extractCalls = 1
                      /\ req[r].result # "200"

\* a retry request has been answered after its extraction timed out, with
\* the suggestion call made as well
C28_Witness ==
    /\ req["r1"].kind = "retry" /\ req["r1"].pc = "done"
    /\ req["r1"].extraction = "timeout"
    /\ req["r1"].extractCalls = 1 /\ req["r1"].suggCalls = 1

C30_PurgeExact ==
    [][(last'.op = "session.purge" /\ clock' = clock)
          => /\ \A t \in Tokens :
                   /\ store'[t] = IF store[t] # NoRecord /\ store[t].expires_at <= clock
                                  THEN NoRecord ELSE store[t]
                   /\ dbStore'[t] = IF dbStore[t] # NoRecord
                                       /\ dbStore[t].expires_at <= clock
                                    THEN NoRecord ELSE dbStore[t]
             /\ last'.memory.kind = "records"
             /\ last'.memory.purged =
                   {store[t] : t \in {u \in Tokens : store[u] # NoRecord
                                                     /\ store'[u] = NoRecord}}
             /\ last'.database.kind = "records"
             /\ last'.database.purged =
                   {dbStore[t] : t \in {u \in Tokens : dbStore[u] # NoRecord
                                                       /\ dbStore'[u] = NoRecord}}]_vars

\* a purge at the very instant of expiry has returned a record that had been
\* retried, and the record is gone from both stores
C30_Witness ==
    /\ last.op = "session.purge"
    /\ \E rec \in last.memory.purged :
          /\ rec.retry_count > 0
          /\ rec.expires_at = clock
          /\ rec.file_ids # <<>>
          /\ store[rec.token] = NoRecord
          /\ dbStore[rec.token] = NoRecord
          /\ rec \in last.database.purged

\* C31: a record that stays in the session store changes only in a step of
\* increment_retry, which raises its retry_count by exactly 1 and leaves its
\* token, file_ids, created_at and expires_at as they were; no step of any
\* request moves a session's expiry
C31_OnlyIncrementMutates ==
    [][\A t \in Tokens :
          (store[t] # NoRecord /\ store'[t] # NoRecord /\ store'[t] # store[t])
             => /\ store'[t].retry_count = store[t].retry_count + 1
                /\ store'[t].token = store[t].token
                /\ store'[t].file_ids = store[t].file_ids
                /\ store'[t].created_at = store[t].created_at
                /\ store'[t].expires_at = store[t].expires_at
                /\ \E r \in Requests :
                      /\ req[r].kind = "retry" /\ req[r].pc = "increment"
                      /\ req[r].token = t]_vars

\* a stored session has been retried and read by a suggest request, and
\* its expiry is still the one it was created with
C31_Witness ==
    \E t \in Tokens :
       /\ store[t] # NoRecord
       /\ store[t].retry_count > 0
       /\ store[t].expires_at = store[t].created_at + SessionTtl
       /\ req["r1"].kind = "suggest" /\ req["r1"].pc = "done"
       /\ req["r1"].token = t /\ req["r1"].result = "200"

----------------------------------------------------------------------------
\* process_menu builds the three lists of a session record; direct
\* increments follow

\* The files of a POST /menu/process, each with its filename ("" when the
\* client sent none)
NamedUploads ==
    UNION {[1..n -> [content_type : {"image/jpeg", "text/plain"},
                     empty : BOOLEAN,
                     filename : {"", "menu.jpg"}]] : n \in 0..MaxBatchImages}

\* The mutant appends a filename only when the client sent one
ProcessFilenamesNamedOnly(files) ==
    LET named == SelectSeq(files, LAMBDA f : f.filename # "")
    IN [i \in 1..Len(named) |-> named[i].filename]

\* process_menu: filenames.append(upload.filename or "menu-page")
ProcessFilenames(files) ==
    [i \in 1..Len(files) |->
        IF files[i].filename = "" THEN "menu-page" ELSE files[i].filename]

\* process_menu: content_types.append(content_type); _optimise_image_payload
\* returns the type it was given
ProcessContentTypes(files) ==
    [i \in 1..Len(files) |-> files[i].content_type]

\* create_session(file_ids, filenames, content_types) with the ids that
\* upload_images returned, one per image
ProcessRecord(token, files, now) ==
    LET base == NewRecord(token, FileIds(token, Len(files)), now)
    IN [token |-> base.token, file_ids |-> base.file_ids,
        filenames |-> ProcessFilenames(files),
        content_types |-> ProcessContentTypes(files),
        created_at |-> base.created_at, expires_at |-> base.expires_at,
        retry_count |-> base.retry_count]

InitCreate ==
    /\ InitProgram
    /\ quick_suggestion_model
    /\ calc \in [fn : {"process_menu"}, files : NamedUploads, now : 0..MaxClock,
                 applied : {FALSE}, status : {"none"}, record : {NoRecord}]

\* process_menu up to create_session: a 400, or the stored record
ApplyCreate ==
    /\ ~calc.applied
    /\ calc' = IF ValidationError(calc.files) # "none"
               THEN [calc EXCEPT !.applied = TRUE, !.status = "400"]
               ELSE [calc EXCEPT !.applied = TRUE, !.status = "200",
                                 !.record = ProcessRecord(1, calc.files, calc.now)]
    /\ UNCHANGED <<clock, menuState, shareState, backendState>>

\* increment_retry on the stored record
IncrementCreated ==
    /\ calc.applied
    /\ calc.record # NoRecord
    /\ calc.record.retry_count < MaxIncrements
    /\ calc' = [calc EXCEPT !.record = Incremented(calc.record)]
    /\ UNCHANGED <<clock, menuState, shareState, backendState>>

NextCreate == ApplyCreate \/ IncrementCreated

SpecCreate == InitCreate /\ [][NextCreate]_vars

\* C32: every stored session record has file_ids, filenames and
\* content_types of one length, a retry_count that is not negative, and an
\* expires_at that is its created_at plus the session TTL
C32_RecordWellFormed ==
    calc.record # NoRecord
       => /\ Len(calc.record.filenames) = Len(calc.record.file_ids)
          /\ Len(calc.record.content_types) = Len(calc.record.file_ids)
          /\ Len(calc.record.file_ids) = Len(calc.files)
          /\ calc.record.retry_count >= 0
          /\ calc.record.expires_at = calc.record.created_at + SessionTtl

C32_Witness ==
    /\ calc.record # NoRecord
    /\ Len(calc.files) = 2
    /\ calc.files[1].filename = "" /\ calc.files[2].filename # ""
    /\ calc.record.retry_count = 2
    /\ calc.record.created_at = 1

\* C33: no extraction or quick-suggestion call is issued for a file handle
\* whose deletion has already been requested, whatever the interleaving of
\* retry, delete-session and purging requests on the session
C33_NoCallOnReleasedHandles ==
    [][\A r \in Requests :
          (req[r].kind = "retry" /\ req[r].pc = "generate" /\ req'[r].pc = "extract")
             => Range(req[r].file_ids) \cap deleteRequested = {}]_vars

----------------------------------------------------------------------------
\* Two clients retry one session at the same time until the cap answers

NextRetryRace ==
    \/ Tick
    \/ StartProcess("r1")
    \/ UploadSucceeds("r1")
    \/ CreateSession("r1")
    \/ \E r \in Requests : StartRetryCap(r)
    \/ \E r \in Requests : PurgeExpiredSessions(r)
    \/ \E r \in Requests : Describe(r)
    \/ \E r \in Requests : IncrementRetry(r)
    \/ \E r \in Requests : LaunchGeneration(r)
    \/ \E r \in Requests : ExtractSucceeds(r)
    \/ \E r \in Requests : ExtractFails(r)
    \/ \E r \in Requests : SuggestionTaskEnds(r)
    \/ \E r \in Requests : AwaitSuggestion(r)
    \/ \E r \in Requests : SuggestionTimesOut(r)
    \/ \E r \in Requests : Respond(r)

SpecRetryRace == Init /\ [][NextRetryRace]_vars

\* The retry requests on session t that have passed the retry cap and have
\* not been answered yet
RetriesGenerating(t) ==
    {r \in Requests : /\ req[r].kind = "retry" /\ req[r].token = t
                      /\ req[r].pc \in {"generate", "extract", "await_sugg"}}

\* C34: whatever the interleaving of the retry requests on a session, each
\* one that reaches the generation call holds a count of its own between 1
\* and 5, so at most 5 do; every other retry that found the session is
\* answered 429, without a generation call
C34_AtMostFiveGenerate ==
    /\ [](\A t \in Tokens :
            /\ okRetries[t] + Cardinality(RetriesGenerating(t)) <= 5
            /\ \A r \in RetriesGenerating(t) : req[r].retry_count \in 1..5
            /\ \A r, q \in RetriesGenerating(t) :
                  r # q => req[r].retry_count # req[q].retry_count)
    /\ [](\A r \in Requests :
            (req[r].kind = "retry" /\ req[r].pc = "done" /\ req[r].extractCalls = 0)
               => req[r].result \in {"429", "404"})
    /\ [][\A r \in Requests :
            (req[r].kind = "retry" /\ req[r].pc = "generate" /\ req'[r].pc = "extract")
               => /\ req[r].retry_count \in 1..5
                  /\ \E i \in DOMAIN returned[req[r].token] :
                        /\ returned[req[r].token][i] = req[r].retry_count
                        /\ \A j \in DOMAIN returned[req[r].token] :
                              returned[req[r].token][j] = req[r].retry_count => j = i]_vars

\* Two retries were in flight together after four had succeeded: one holds
\* the fifth count and is generating, the other was answered 429 with the
\* sixth
C34_Witness ==
    \E t \in Tokens :
       /\ okRetries[t] = 4
       /\ req["r1"].kind = "retry" /\ req["r1"].token = t
       /\ req["r1"].pc = "extract" /\ req["r1"].retry_count = 5
       /\ req["r2"].kind = "retry" /\ req["r2"].token = t
       /\ req["r2"].pc = "done" /\ req["r2"].result = "429"
       /\ req["r2"].okBefore = 4 /\ req["r2"].retry_count = 6

\* C35: the retry_count of a stored session never exceeds the retry cap of
\* 5, and a retry answered 429 leaves the stored retry_count as it was
C35_CountWithinCap ==
    /\ [](\A t \in Tokens : store[t] # NoRecord => store[t].retry_count <= 5)
    /\ [][\A r \in Requests :
            (req[r].kind = "retry" /\ req'[r].pc = "done" /\ req[r].pc # "done"
             /\ req'[r].result = "429")
               => store'[req[r].token] = store[req[r].token]]_vars

\* C35 as amended: the stored retry_count counts every retry that found the
\* record, the rejected ones included: a retry answered 429 has raised it by
\* exactly 1 to a value above 5, and a retry goes on to generate only with a
\* stored count of at most 5
C35_CountsEveryAttempt ==
    /\ [](\A t \in Tokens :
            store[t] # NoRecord => store[t].retry_count = Len(returned[t]))
    /\ [][\A r \in Requests :
            (req[r].kind = "retry" /\ req[r].pc = "increment" /\ req'[r].pc # "increment"
             /\ req'[r].result # "404")
               => /\ store'[req[r].token].retry_count
                        = store[req[r].token].retry_count + 1
                  /\ req'[r].result = "429"
                        <=> store'[req[r].token].retry_count > 5
                  /\ req'[r].pc = "generate"
                        <=> store'[req[r].token].retry_count <= 5]_vars

\* A second rejected retry has left 7 in the record
C35_Witness ==
    \E t \in Tokens :
       /\ store[t] # NoRecord
       /\ store[t].retry_count = 7
       /\ req["r1"].kind = "retry" /\ req["r1"].pc = "done"
       /\ req["r1"].result = "429" /\ req["r1"].token = t

----------------------------------------------------------------------------
\* One record of the share store or of the session store, read and swept at
\* one clock value

InitAgree ==
    /\ InitProgram
    /\ quick_suggestion_model
    /\ calc \in [fn : {"share", "session"}, created_at : 0..MaxTime, now : 0..MaxTime,
                 read : {"none"}, swept : {"none"}]

\* The store that holds the one record under token 1
AgreeShareStore ==
    [t \in ShareTokens |->
        IF t = 1 THEN NewShare("menuA", calc.created_at)
        ELSE NoRecord]

AgreeSessionStore ==
    [t \in Tokens |->
        IF t = 1 THEN NewRecord(1, FileIds(1, 1), calc.created_at) ELSE NoRecord]

\* fetch(token) at calc.now: the record or None
ReadAtClock ==
    /\ calc.read = "none"
    /\ calc' = [calc EXCEPT !.read =
                  IF calc.fn = "share"
                  THEN IF ShareFetchResult(AgreeShareStore, 1, calc.now) = NoRecord
                       THEN "None" ELSE "record"
                  ELSE IF FetchResult(AgreeSessionStore, 1, calc.now) = NoRecord
                       THEN "None" ELSE "record"]
    /\ UNCHANGED <<clock, menuState, shareState, backendState>>

\* purge() at calc.now: the record is kept or removed
SweepAtClock ==
    /\ calc.swept = "none"
    /\ calc' = [calc EXCEPT !.swept =
                  IF calc.fn = "share"
                  THEN IF SharePurgeStore(AgreeShareStore, calc.now)[1] = NoRecord
                       THEN "removed" ELSE "kept"
                  ELSE IF PurgeStore(AgreeSessionStore, calc.now)[1] = NoRecord
                       THEN "removed" ELSE "kept"]
    /\ UNCHANGED <<clock, menuState, shareState, backendState>>

NextAgree == ReadAtClock \/ SweepAtClock

SpecAgree == InitAgree /\ [][NextAgree]_vars

\* The expiry of the record of calc
AgreeExpiresAt ==
    calc.created_at + (IF calc.fn = "share" THEN ShareTtl ELSE SessionTtl)

\* C36: at one clock value a read returns a share or session record exactly
\* when the sweep would keep it, and it returns no record whose expires_at
\* is at or before the clock
C36_ReadAgreesWithSweep ==
    /\ (calc.read # "none" /\ calc.swept # "none")
          => (calc.read = "record" <=> calc.swept = "kept")
    /\ calc.read = "record" => AgreeExpiresAt > calc.now

\* C37: whatever the interleaving of the requests that run the sweep, an
\* expired session record leaves the store in the purge_expired call of one
\* of them, which requests the release of its file handles (a delete-session
\* request that removes the record it released itself aside)
C37_ExpiredPurgedOnce ==
    [][\A t \in Tokens :
          (/\ store[t] # NoRecord
           /\ store[t].expires_at <= clock
           /\ store'[t] = NoRecord
           /\ ~\E r \in Requests : /\ req[r].kind = "delete"
                                   /\ req[r].pc = "delete_record"
                                   /\ req'[r].pc = "done")
             => /\ \E r \in Requests : req[r].pc = "purge" /\ req'[r].pc # "purge"
                /\ Range(store[t].file_ids) \subseteq deleteRequested']_vars

\* C38: when the generation of a retry request fails or times out, the
\* session record stays in the store with its file handles and no deletion
\* is requested; when the generation of a process request fails or times
\* out, deletion of every uploaded handle is requested and no session record
\* is created
C38_FailureKeepsOrReleases ==
    [][\A r \in Requests :
          (/\ req[r].pc = "extract" /\ req'[r].pc = "done"
           /\ req'[r].extraction \in {"failed", "timeout"})
             => IF req[r].kind = "retry"
                THEN /\ store'[req[r].token] # NoRecord
                     /\ store'[req[r].token] = store[req[r].token]
                     /\ store'[req[r].token].file_ids = req[r].file_ids
                     /\ deleteRequested' = deleteRequested
                ELSE /\ Range(req[r].file_ids) \subseteq deleteRequested'
                     /\ store'[req[r].token] = NoRecord
                     /\ req'[r].session_id = 0]_vars

\* C39: the sections of an assembled template have pairwise distinct titles
\* and at least one dish each; a section label carried only by dropped items
\* is no title of the output, and every kept item without a section label
\* has its dish in the section titled "Menu"
C39_SectionsDistinctNonEmpty ==
    (calc.fn = "_build_menu_template" /\ calc.applied
        /\ calc.result.kind = "MenuTemplate")
        => LET items == calc.payload.items
               sections == calc.result.sections
               Kept(item) == /\ item.isDict
                             /\ item.original_name = " Pho "
                             /\ item.translated_name = "Noodle soup"
                             /\ item.description = "Rice noodles"
               Unlabelled(item) == item.section = "None"
           IN /\ \A a, b \in DOMAIN sections :
                    a # b => sections[a].title # sections[b].title
              /\ \A a \in DOMAIN sections : Len(sections[a].dishes) >= 1
              /\ \A a \in DOMAIN sections :
                    \E i \in DOMAIN items :
                       /\ Kept(items[i])
                       /\ IF Unlabelled(items[i]) THEN sections[a].title = "Menu"
                          ELSE sections[a].title = items[i].section
              /\ \A a \in DOMAIN sections :
                    sections[a].title = "Menu"
                       => Len(sections[a].dishes)
                             = Cardinality({i \in DOMAIN items :
                                   Kept(items[i]) /\ Unlabelled(items[i])})
              /\ (\E i \in DOMAIN items : Kept(items[i]) /\ Unlabelled(items[i]))
                    => \E a \in DOMAIN sections : sections[a].title = "Menu"

\* A dropped item labelled "Soups" and a kept item without a label have
\* given the one section "Menu"
C39_Witness ==
    /\ calc.fn = "_build_menu_template" /\ calc.applied
    /\ Len(calc.payload.items) = 2
    /\ calc.payload.items[1].isDict
    /\ calc.payload.items[1].section = "Soups"
    /\ calc.payload.items[1].description = "None"
    /\ calc.payload.items[2].section = "None"
    /\ calc.result.kind = "MenuTemplate"
    /\ Len(calc.result.sections) = 1
    /\ calc.result.sections[1].title = "Menu"
    /\ Len(calc.result.sections[1].dishes) = 1

====
